---- MODULE Spec2Model ----
(***************************************************************************)
(* A model of the investment-advisor demo pages:                           *)
(*   investment_advisor_app.py         ("app")                             *)
(*   investment_advisor_final.py       ("final")                           *)
(*   investment_advisor_app_claude.py  ("claude")                          *)
(* and of the helpers of utils.py.                                         *)
(*                                                                         *)
(* The three pages are run side by side on the same user actions and the   *)
(* same outcomes of the external library, one server process (with its own *)
(* process environment) per page, several browser sessions per process.    *)
(* One action is one run of the page script (main) for one session.        *)
(***************************************************************************)
EXTENDS Naturals, Integers, Sequences, FiniteSets, TLC

\* ------------------------------------------------------------------------
\* Python strings.  TLC's strings carry Len, SubSeq and \o.
\* ------------------------------------------------------------------------

\* s[i], 1-based.
CharAt(s, i) == SubSeq(s, i, i)

\* Python: sub in s.
Contains(sub, s) ==
    \E i \in 1..(Len(s) + 1) :
        /\ i + Len(sub) - 1 <= Len(s)
        /\ SubSeq(s, i, i + Len(sub) - 1) = sub

\* Python: s.startswith(p) and s.endswith(p).
EndsWith(s, p) == Len(p) <= Len(s) /\ SubSeq(s, Len(s) - Len(p) + 1, Len(s)) = p

\* The lower-case form of each upper-case ASCII letter.
LowerOf ==
    [c \in {"A","B","C","D","E","F","G","H","I","J","K","L","M",
            "N","O","P","Q","R","S","T","U","V","W","X","Y","Z"} |->
        CASE c = "A" -> "a" [] c = "B" -> "b" [] c = "C" -> "c" [] c = "D" -> "d"
          [] c = "E" -> "e" [] c = "F" -> "f" [] c = "G" -> "g" [] c = "H" -> "h"
          [] c = "I" -> "i" [] c = "J" -> "j" [] c = "K" -> "k" [] c = "L" -> "l"
          [] c = "M" -> "m" [] c = "N" -> "n" [] c = "O" -> "o" [] c = "P" -> "p"
          [] c = "Q" -> "q" [] c = "R" -> "r" [] c = "S" -> "s" [] c = "T" -> "t"
          [] c = "U" -> "u" [] c = "V" -> "v" [] c = "W" -> "w" [] c = "X" -> "x"
          [] c = "Y" -> "y" [] c = "Z" -> "z"]

LowerChar(c) == IF c \in DOMAIN LowerOf THEN LowerOf[c] ELSE c

\* Python: s.lower().
RECURSIVE Lower(_)
Lower(s) ==
    IF Len(s) = 0 THEN ""
    ELSE IF Len(s) = 1 THEN LowerChar(s)
    ELSE LET h == Len(s) \div 2
         IN Lower(SubSeq(s, 1, h)) \o Lower(SubSeq(s, h + 1, Len(s)))

IsSpace(c) == c \in {" ", "\t", "\n", "\r"}

RECURSIVE LStrip(_)
LStrip(s) ==
    IF Len(s) > 0 /\ IsSpace(CharAt(s, 1)) THEN LStrip(SubSeq(s, 2, Len(s))) ELSE s

RECURSIVE RStrip(_)
RStrip(s) ==
    IF Len(s) > 0 /\ IsSpace(CharAt(s, Len(s))) THEN RStrip(SubSeq(s, 1, Len(s) - 1)) ELSE s

\* Python: s.strip().
Strip(s) == RStrip(LStrip(s))

\* Python: sep.join(items), items a list of strings.
RECURSIVE Join(_, _)
Join(sep, items) ==
    IF Len(items) = 0 THEN ""
    ELSE IF Len(items) = 1 THEN items[1]
    ELSE items[1] \o sep \o Join(sep, Tail(items))

Digits == "0123456789"

\* Python: str(n) of a non-negative int, as an f-string prints it.
RECURSIVE IntToStr(_)
IntToStr(n) ==
    IF n < 10 THEN CharAt(Digits, n + 1)
    ELSE IntToStr(n \div 10) \o CharAt(Digits, (n % 10) + 1)

RECURSIVE Repeat(_, _)
Repeat(s, n) == IF n = 0 THEN "" ELSE s \o Repeat(s, n - 1)

\* ------------------------------------------------------------------------
\* Python values the pages handle: None, a str, bytes, or an object of the
\* external library (its str() form and its raw / output / result
\* attributes, each <<>> when the object has no such attribute).
\* ------------------------------------------------------------------------

PyNone == [kind |-> "NoneType", str |-> "None", raw |-> <<>>, output |-> <<>>, result |-> <<>>]
PyStr(t) == [kind |-> "str", str |-> t, raw |-> <<>>, output |-> <<>>, result |-> <<>>]
PyBytes(t) == [kind |-> "bytes", str |-> t, raw |-> <<>>, output |-> <<>>, result |-> <<>>]
PyObj(t, raw, output, result) ==
    [kind |-> "object", str |-> t, raw |-> raw, output |-> output, result |-> result]

\* The library's result object: its text is its raw attribute and its str().
CrewOutput(t) == PyObj(t, <<PyStr(t)>>, <<>>, <<>>)

\* Python: hasattr(v, name), for name in raw, output, result.
HasAttr(v, name) ==
    CASE name = "raw" -> v.raw # <<>>
      [] name = "output" -> v.output # <<>>
      [] name = "result" -> v.result # <<>>

\* Python: str(v).
Str(v) == v.str

\* Python: the truth value of v (if v:). None and "" are false; an object
\* without __bool__ / __len__ is true.
Truthy(v) ==
    CASE v.kind = "NoneType" -> FALSE
      [] v.kind = "str" -> v.str # ""
      [] v.kind = "bytes" -> v.str # ""
      [] OTHER -> TRUE

\* Python: text.encode('utf-8') of a str.
Encode(v) == PyBytes(v.str)

\* ------------------------------------------------------------------------
\* The three pages and what their widgets offer.
\* ------------------------------------------------------------------------

Apps == {"app", "final", "claude"}

MinAmount == 1000
MaxAmount == 10000000
DefaultAmount == 100000
MinHorizon == 1
MaxHorizon == 30
DefaultHorizon == 10

CurrencyOptions == <<"USD", "EUR", "GBP", "PKR", "INR", "AED">>
GeographyOptions == <<"Local/Domestic", "Regional", "International", "Emerging Markets">>
PreferenceOptions ==
    <<"Stock Market", "Real Estate", "Bonds", "Mutual Funds", "ETFs", "Cryptocurrency", "Commodities">>
RiskOptions == <<"Very Low", "Low", "Medium", "High", "Very High">>

Range(seq) == {seq[i] : i \in 1..Len(seq)}

\* ------------------------------------------------------------------------
\* create_tasks: the descriptions of the four tasks, in order.
\* ------------------------------------------------------------------------

create_tasks_app(data) ==
    << "Research 3-5 specific investments for " \o IntToStr(data.amount) \o " " \o data.currency \o ". "
         \o "Focus: " \o data.preferences \o ". Geography: " \o data.geography \o ". "
         \o "Risk: " \o data.risk_tolerance \o ". "
         \o "Provide: names, tickers, prices, 6-month performance.",
       "Create " \o IntToStr(data.time_horizon) \o "-year projections for "
         \o IntToStr(data.amount) \o " " \o data.currency \o ". "
         \o "Calculate conservative, expected, and optimistic scenarios with specific numbers.",
       "Assess risks for " \o data.risk_tolerance \o " risk tolerance. "
         \o "Provide risk ratings and specific mitigation strategies.",
       "Create final recommendations with: "
         \o "1) Ranked investments, "
         \o "2) Allocation percentages (totaling 100%), "
         \o "3) Expected returns, "
         \o "4) Action steps." >>

create_tasks_final(data) ==
    << "Research investment opportunities for " \o IntToStr(data.amount) \o " " \o data.currency
         \o " focusing on " \o data.preferences \o " in " \o data.geography
         \o " markets. Find top opportunities with recent performance data.",
       "Analyze opportunities and create " \o IntToStr(data.time_horizon)
         \o "-year ROI projections for " \o IntToStr(data.amount) \o " " \o data.currency
         \o ". Calculate multiple scenarios.",
       "Assess risks for each option considering " \o data.risk_tolerance
         \o " risk tolerance. Provide ratings and mitigation strategies.",
       "Create final investment recommendations for " \o IntToStr(data.amount) \o " " \o data.currency
         \o " with " \o data.risk_tolerance \o " risk tolerance and "
         \o IntToStr(data.time_horizon) \o "-year horizon. Rank top options." >>

create_tasks_claude(investment_data) ==
    << "Research current investment opportunities for an investment amount of "
         \o IntToStr(investment_data.amount) \o " " \o investment_data.currency \o ". "
         \o "Focus on: " \o investment_data.preferences \o ". "
         \o "Geographic preference: " \o investment_data.geography \o ". "
         \o "Find the top 5-7 investment options in each category. "
         \o "Include recent 6-month performance data and current market conditions. "
         \o "Identify top companies or opportunities in each sector.",
       "Analyze the investment opportunities identified and create ROI projections "
         \o "for 1-10 years for the investment amount of "
         \o IntToStr(investment_data.amount) \o " " \o investment_data.currency \o ". "
         \o "Use historical data and current market trends. "
         \o "Calculate best-case, average-case, and worst-case scenarios. "
         \o "Include factors like compound growth, dividends, and market volatility.",
       "Evaluate risks for each recommended investment option. "
         \o "Consider the user's risk tolerance: " \o investment_data.risk_tolerance \o ". "
         \o "Analyze market volatility, liquidity, regulatory risks, and external factors. "
         \o "Provide risk ratings (Low/Medium/High) for each option.",
       "Synthesize all research, analysis, and risk assessments to provide "
         \o "final investment recommendations. Rank the top 3-5 options. "
         \o "Provide clear rationale for each recommendation. "
         \o "Consider investment amount: " \o IntToStr(investment_data.amount) \o " "
         \o investment_data.currency \o ", "
         \o "risk tolerance: " \o investment_data.risk_tolerance \o ", "
         \o "and time horizon: " \o IntToStr(investment_data.time_horizon) \o " years." >>

create_tasks(a, data) ==
    CASE a = "app" -> create_tasks_app(data)
      [] a = "final" -> create_tasks_final(data)
      [] a = "claude" -> create_tasks_claude(data)

\* ------------------------------------------------------------------------
\* Messages a page shows (st.error / st.warning / st.info / st.success).
\* The texts are the source's, without their leading emoji.
\* ------------------------------------------------------------------------

Msg(level, text) == [level |-> level, text |-> text]

AuthError_app == Msg("error", "Authentication Error: Check your API keys.")
RateError_app == Msg("error", "Rate Limit: Wait 1 minute and try again.")
GenericError_app(e) == Msg("error", "Error: " \o e)
InsufficientError_app == Msg("error", "Insufficient data. Try again with different parameters.")
NoDataWarning_app == Msg("warning", "Could not find sufficient market data.")
NoDataInfo_app == Msg("info", "Try: simpler investment types, broader regions, or wait a moment.")

AuthError_final ==
    Msg("error", "**Authentication Error**: Please verify your access credentials and try again.")
AuthInfo_final == Msg("info", "Ensure your credentials are valid and properly configured.")
GenericError_final(e) == Msg("error", "**Analysis Error**: " \o e)

GenericError_claude(e) == Msg("error", "An error occurred during analysis: " \o e)

\* ------------------------------------------------------------------------
\* What the external library does in one analysis: it raises (while the
\* credentials are written to os.environ, stage "environ"; while the
\* agents are built, stage "init"; while the tasks or the crew are built,
\* "tasks", "crew"; inside Crew.kickoff, "kickoff"; while the result is
\* turned into text and checked, "validate"), or kickoff returns a value.
\* What is raised is an Exception, or a KeyboardInterrupt, which is none.
\* ------------------------------------------------------------------------

Raises(stage, msg) ==
    [raises |-> TRUE, stage |-> stage, msg |-> msg, value |-> PyNone, exc |-> "Exception"]
Interrupts(stage) ==
    [raises |-> TRUE, stage |-> stage, msg |-> "", value |-> PyNone, exc |-> "KeyboardInterrupt"]
Returns(v) == [raises |-> FALSE, stage |-> "kickoff", msg |-> "", value |-> v, exc |-> ""]

\* "except Exception": the exceptions the clause takes.
IsException(o) == o.exc = "Exception"

\* The assignments to os.environ carried out: none when the first raised.
EnvironWrites(o) == IF o.raises /\ o.stage = "environ" THEN 0 ELSE 2

\* Crew.kickoff called again after it raised.
KickoffCallsWithRetry(o) ==
    IF o.stage = "kickoff" THEN (IF o.raises THEN 2 ELSE 1) ELSE 0

\* Whether Crew.kickoff was entered under outcome o.
KickoffCalls(o) == IF o.stage \in {"kickoff", "validate"} THEN 1 ELSE 0

\* The tasks handed to Crew(...): none when the library raised before.
TasksHanded(a, data, o) ==
    IF o.raises /\ o.stage \in {"environ", "init", "tasks"} THEN <<>> ELSE create_tasks(a, data)

MinReportLen == 200

\* An except clause that does not look for "key".
handle_exception_without_key(e) ==
    LET error_msg == Lower(e)
    IN IF Contains("auth", error_msg)
       THEN <<AuthError_app>>
       ELSE IF Contains("rate", error_msg)
       THEN <<RateError_app>>
       ELSE <<GenericError_app(e)>>

\* An except clause that looks for "rate" first.
handle_exception_rate_first(e) ==
    LET error_msg == Lower(e)
    IN IF Contains("rate", error_msg)
       THEN <<RateError_app>>
       ELSE IF Contains("auth", error_msg) \/ Contains("key", error_msg)
       THEN <<AuthError_app>>
       ELSE <<GenericError_app(e)>>

\* investment_advisor_app.run_analysis: the except clause.
handle_exception_app(e) ==
    LET error_msg == Lower(e)
    IN IF Contains("auth", error_msg) \/ Contains("key", error_msg)
       THEN <<AuthError_app>>
       ELSE IF Contains("rate", error_msg)
       THEN <<RateError_app>>
       ELSE <<GenericError_app(e)>>

\* A conversion that takes the string form of the result whatever its
\* attributes.
result_to_str_plain(result) == Str(result)

\* investment_advisor_app.run_analysis: the conversion of the result to text.
result_to_str_app(result) ==
    IF HasAttr(result, "raw") THEN Str(result.raw[1])
    ELSE IF HasAttr(result, "output") THEN Str(result.output[1])
    ELSE IF HasAttr(result, "result") THEN Str(result.result[1])
    ELSE Str(result)

\* A run_analysis that measures the text with the white space around it.
run_analysis_app_unstripped(data, api_key, search_key, o) ==
    LET base == [ret |-> PyNone, msgs |-> <<>>,
                 environ |-> [model |-> api_key, search |-> search_key],
                 writes |-> EnvironWrites(o),
                 propagated |-> FALSE,
                 inits |-> 1,
                 tasks |-> TasksHanded("app", data, o),
                 kickoffs |-> KickoffCalls(o)]
    IN IF o.raises
       THEN [base EXCEPT !.msgs = handle_exception_app(o.msg)]
       ELSE IF o.value = PyNone
       THEN base
       ELSE LET result_str == result_to_str_app(o.value)
            IN IF Len(result_str) < MinReportLen
               THEN [base EXCEPT !.msgs = <<InsufficientError_app>>]
               ELSE [base EXCEPT !.ret = PyStr(result_str)]

\* investment_advisor_app.run_analysis.  ret: the value returned; msgs: the
\* messages shown; environ: the credentials written to the process
\* environment by initialize_system; inits: the calls of initialize_system;
\* tasks: the task descriptions built; kickoffs: the calls of Crew.kickoff.
run_analysis_app(data, api_key, search_key, o) ==
    LET base == [ret |-> PyNone, msgs |-> <<>>,
                 environ |-> [model |-> api_key, search |-> search_key],
                 writes |-> EnvironWrites(o),
                 propagated |-> FALSE,
                 inits |-> 1,
                 tasks |-> TasksHanded("app", data, o),
                 kickoffs |-> KickoffCalls(o)]
    IN IF o.raises
       THEN (IF IsException(o)
             THEN [base EXCEPT !.msgs = handle_exception_app(o.msg)]
             ELSE [base EXCEPT !.propagated = TRUE])
       ELSE IF o.value = PyNone
       THEN base
       ELSE LET result_str == result_to_str_app(o.value)
            IN IF Len(Strip(result_str)) < MinReportLen
               THEN [base EXCEPT !.msgs = <<InsufficientError_app>>]
               ELSE IF LET lowered == Lower(result_str)
                       IN \/ Contains("absence of", lowered)
                          \/ Contains("unable to provide", lowered)
               THEN [base EXCEPT !.msgs = <<NoDataWarning_app, NoDataInfo_app>>]
               ELSE [base EXCEPT !.ret = PyStr(result_str)]

\* investment_advisor_final.run_analysis: the except clause.
handle_exception_final(e) ==
    LET error_msg == Lower(e)
    IN IF \/ Contains("authentication", error_msg)
          \/ Contains("api", error_msg)
          \/ Contains("key", error_msg)
       THEN <<AuthError_final, AuthInfo_final>>
       ELSE <<GenericError_final(e)>>

\* A run_analysis whose try begins at crew.kickoff().
run_analysis_final_try_at_kickoff(data, api_key, search_key, o) ==
    LET base == [ret |-> PyNone, msgs |-> <<>>,
                 environ |-> [model |-> api_key, search |-> search_key],
                 writes |-> EnvironWrites(o),
                 propagated |-> FALSE,
                 inits |-> 1,
                 tasks |-> TasksHanded("final", data, o),
                 kickoffs |-> KickoffCalls(o)]
    IN IF o.raises
       THEN (IF IsException(o) /\ o.stage = "kickoff"
             THEN [base EXCEPT !.msgs = handle_exception_final(o.msg)]
             ELSE [base EXCEPT !.propagated = TRUE])
       ELSE [base EXCEPT !.ret = o.value]

\* investment_advisor_final.run_analysis.
run_analysis_final(data, api_key, search_key, o) ==
    LET base == [ret |-> PyNone, msgs |-> <<>>,
                 environ |-> [model |-> api_key, search |-> search_key],
                 writes |-> EnvironWrites(o),
                 propagated |-> FALSE,
                 inits |-> 1,
                 tasks |-> TasksHanded("final", data, o),
                 kickoffs |-> KickoffCalls(o)]
    IN IF o.raises
       THEN (IF IsException(o)
             THEN [base EXCEPT !.msgs = handle_exception_final(o.msg)]
             ELSE [base EXCEPT !.propagated = TRUE])
       ELSE [base EXCEPT !.ret = o.value]

\* investment_advisor_app_claude.run_investment_analysis: the except clause.
handle_exception_claude(e) == <<GenericError_claude(e)>>

\* An analysis of investment_advisor_app_claude that checks the result as
\* investment_advisor_app does.
run_investment_analysis_checked(investment_data, claude_api_key, serper_key, o) ==
    [run_analysis_app(investment_data, claude_api_key, serper_key, o)
        EXCEPT !.tasks = TasksHanded("claude", investment_data, o)]

\* investment_advisor_app_claude.run_investment_analysis.
run_investment_analysis(investment_data, claude_api_key, serper_key, o) ==
    LET base == [ret |-> PyNone, msgs |-> <<>>,
                 environ |-> [model |-> claude_api_key, search |-> serper_key],
                 writes |-> EnvironWrites(o),
                 propagated |-> FALSE,
                 inits |-> 1,
                 tasks |-> TasksHanded("claude", investment_data, o),
                 kickoffs |-> KickoffCalls(o)]
    IN IF o.raises
       THEN (IF IsException(o)
             THEN [base EXCEPT !.msgs = handle_exception_claude(o.msg)]
             ELSE [base EXCEPT !.propagated = TRUE])
       ELSE [base EXCEPT !.ret = o.value]

RunAnalysis(a, data, api_key, search_key, o) ==
    CASE a = "app" -> run_analysis_app(data, api_key, search_key, o)
      [] a = "final" -> run_analysis_final(data, api_key, search_key, o)
      [] a = "claude" -> run_investment_analysis(data, api_key, search_key, o)

\* ------------------------------------------------------------------------
\* The charts.  A point base**i is kept as the pair <<base in thousandths, i>>
\* it is the power of.
\* ------------------------------------------------------------------------

years_list(years) == [i \in 1..years |-> i]
Curve(name, base, years) ==
    [name |-> name, x |-> years_list(years), y |-> [i \in 1..years |-> <<base, i>>]]

\* investment_advisor_app / investment_advisor_final: create_projection_chart.
create_projection_chart(a, years) ==
    [title |-> "Investment Growth Scenarios",
     traces |-> << Curve(IF a = "app" THEN "Conservative (5%)" ELSE "Conservative (5% avg)", 1050, years),
                   Curve(IF a = "app" THEN "Balanced (8.5%)" ELSE "Balanced (8.5% avg)", 1085, years),
                   Curve(IF a = "app" THEN "Growth (13.5%)" ELSE "Growth (13.5% avg)", 1135, years) >>]

\* investment_advisor_app_claude: create_roi_visualization.
create_roi_visualization(years) ==
    [title |-> "Projected ROI Growth (Multiplier) - Next 10 Years",
     traces |-> << Curve("Stock Market (8% avg)", 1080, years),
                   Curve("Real Estate (6% avg)", 1060, years),
                   Curve("International (10% avg)", 1100, years),
                   Curve("Bonds (4% avg)", 1040, years) >>]

\* The six-month returns of the trend chart, in tenths of a percent.
SampleReturns ==
    << 23, 18, 31, -5, 28, 42,   15, 12, 18, 13, 16, 21,
       31, 25, 42, -12, 35, 51,  8, 7, 9, 8, 8, 10 >>

\* create_trend_chart / create_six_month_performance.
create_trend_chart(a) ==
    [title |-> CASE a = "app" -> "Recent Market Performance"
                 [] a = "final" -> "Recent Market Performance (6 Months)"
                 [] a = "claude" -> "Last 6 Months Performance by Investment Category",
     categories |-> IF a = "claude"
                    THEN <<"Stock Market", "Real Estate", "International", "Bonds">>
                    ELSE <<"Equities", "Real Estate", "International", "Fixed Income">>,
     returns |-> SampleReturns]

\* The projection chart main draws: from the selected time horizon.
ProjectionChart(a, time_horizon) ==
    IF a = "claude" THEN create_roi_visualization(time_horizon)
    ELSE create_projection_chart(a, time_horizon)

\* ------------------------------------------------------------------------
\* datetime.now().strftime('%Y%m%d_%H%M%S')
\* ------------------------------------------------------------------------

Pad2(n) == IF n < 10 THEN "0" \o IntToStr(n) ELSE IntToStr(n)
Pad4(n) == IF n < 10 THEN "000" \o IntToStr(n)
           ELSE IF n < 100 THEN "00" \o IntToStr(n)
           ELSE IF n < 1000 THEN "0" \o IntToStr(n)
           ELSE IntToStr(n)
Strftime(t) ==
    Pad4(t.year) \o Pad2(t.month) \o Pad2(t.day) \o "_" \o Pad2(t.hour) \o Pad2(t.minute) \o Pad2(t.second)

\* ------------------------------------------------------------------------
\* main: one run of the page script for one session.
\* ------------------------------------------------------------------------

\* st.session_state of a new session: no key set.
NewSession == [keys |-> {}, done |-> FALSE, report |-> PyNone]

\* The session-state initialisation: a missing key gets its default.
InitSessionState(st) ==
    [keys |-> {"done", "report"},
     done |-> IF "done" \in st.keys THEN st.done ELSE FALSE,
     report |-> IF "report" \in st.keys THEN st.report ELSE PyNone]

\* st.text_input(..., value=default): the default unless the user typed.
TextInput(default, typed) == IF typed = <<>> THEN default ELSE typed[1]

CredentialsError(a) ==
    CASE a = "app" -> Msg("error", "Provide credentials in sidebar.")
      [] a = "final" -> Msg("error", "Please provide your access credentials in the sidebar.")
      [] a = "claude" -> Msg("error", "Please provide both Anthropic and Serper API keys in the sidebar.")
SelectionError_app == Msg("error", "Select at least one type and geography.")
PreferencesError(a) ==
    IF a = "final" THEN Msg("error", "Please select at least one investment type.")
    ELSE Msg("error", "Please select at least one investment preference.")
GeographyError(a) ==
    IF a = "final" THEN Msg("error", "Please select at least one geographic focus area.")
    ELSE Msg("error", "Please select at least one geographic preference.")
SuccessMsgs(a) ==
    CASE a = "app" -> <<Msg("success", "Complete!")>>
      [] a = "final" -> <<Msg("success", "Analysis complete!")>>
      [] a = "claude" -> <<>>

\* Checks of a button click that look at the selections before the
\* credentials.
ValidateClickSelectionsFirst(a, api_key, search_key, preferences, geography) ==
    IF a = "app" /\ (preferences = <<>> \/ geography = <<>>) THEN <<SelectionError_app>>
    ELSE IF preferences = <<>> THEN <<PreferencesError(a)>>
    ELSE IF geography = <<>> THEN <<GeographyError(a)>>
    ELSE IF api_key = "" \/ search_key = "" THEN <<CredentialsError(a)>>
    ELSE <<>>

\* Checks of a button click that let an empty model-provider key pass.
ValidateClickSearchKeyOnly(a, api_key, search_key, preferences, geography) ==
    IF search_key = "" THEN <<CredentialsError(a)>>
    ELSE IF preferences = <<>> \/ geography = <<>> THEN <<SelectionError_app>>
    ELSE <<>>

\* The checks of a button click, in the order of the if / elif chain: the
\* messages of the first failing check, <<>> when the analysis may start.
ValidateClick(a, api_key, search_key, preferences, geography) ==
    IF api_key = "" \/ search_key = "" THEN <<CredentialsError(a)>>
    ELSE IF a = "app"
    THEN (IF preferences = <<>> \/ geography = <<>> THEN <<SelectionError_app>> ELSE <<>>)
    ELSE IF preferences = <<>> THEN <<PreferencesError(a)>>
    ELSE IF geography = <<>> THEN <<GeographyError(a)>>
    ELSE <<>>

\* A number input that commits every entry.
number_input_unchecked(min_value, max_value, value, entry) == entry

\* st.number_input(min_value, max_value, value): the widget commits no entry
\* outside min_value..max_value, it keeps the value it had.
number_input(min_value, max_value, value, entry) ==
    IF min_value <= entry /\ entry <= max_value THEN entry ELSE value

\* The request dictionary built from the widgets.
RequestData(in) ==
    [amount |-> number_input(MinAmount, MaxAmount, DefaultAmount, in.amount),
     currency |-> in.currency,
     geography |-> Join(", ", in.geography),
     preferences |-> Join(", ", in.preferences),
     risk_tolerance |-> in.risk_tolerance,
     time_horizon |-> in.time_horizon]

\* The value handed to st.download_button as data.
DownloadData(a, report) ==
    IF a = "app" THEN Encode(PyStr(Str(report))) ELSE report

DownloadName(a, now) ==
    (IF a = "app" THEN "report_" ELSE "investment_report_") \o Strftime(now) \o ".md"

\* Whether the report section (the report and its download button) is drawn.
ShowsReport(st) == st.done /\ Truthy(st.report)

\* A button's branch that forgets the stored report when a click is rejected.
HandleClickForgetting(a, environ, st, in, o) ==
    LET api_key == TextInput(environ.model, in.api_key)
        search_key == TextInput(environ.search, in.search_key)
        errors == ValidateClick(a, api_key, search_key, in.preferences, in.geography)
        data == RequestData(in)
        r == RunAnalysis(a, data, api_key, search_key, o)
    IN IF errors # <<>>
       THEN [environ |-> environ, st |-> [st EXCEPT !.report = PyNone, !.done = FALSE],
             msgs |-> errors, request |-> <<>>,
             inits |-> 0, tasks |-> <<>>, kickoffs |-> 0]
       ELSE [environ |-> IF r.writes = 0 THEN environ ELSE r.environ,
             st |-> IF Truthy(r.ret)
                    THEN [st EXCEPT !.report = r.ret, !.done = TRUE]
                    ELSE st,
             msgs |-> r.msgs \o (IF Truthy(r.ret) THEN SuccessMsgs(a) ELSE <<>>),
             request |-> <<data>>,
             inits |-> r.inits,
             tasks |-> r.tasks,
             kickoffs |-> r.kickoffs]

\* A button's branch that sets the done flag after every analysis.
HandleClickAlwaysDone(a, environ, st, in, o) ==
    LET api_key == TextInput(environ.model, in.api_key)
        search_key == TextInput(environ.search, in.search_key)
        errors == ValidateClick(a, api_key, search_key, in.preferences, in.geography)
        data == RequestData(in)
        r == RunAnalysis(a, data, api_key, search_key, o)
    IN IF errors # <<>>
       THEN [environ |-> environ, st |-> st, msgs |-> errors, request |-> <<>>,
             inits |-> 0, tasks |-> <<>>, kickoffs |-> 0]
       ELSE [environ |-> r.environ,
             st |-> IF Truthy(r.ret)
                    THEN [st EXCEPT !.report = r.ret, !.done = TRUE]
                    ELSE [st EXCEPT !.done = TRUE],
             msgs |-> r.msgs \o (IF Truthy(r.ret) THEN SuccessMsgs(a) ELSE <<>>),
             request |-> <<data>>,
             inits |-> r.inits,
             tasks |-> r.tasks,
             kickoffs |-> r.kickoffs]

\* The button's branch of main for page a: the session state and the
\* environment after it, and what it did.
HandleClick(a, environ, st, in, o) ==
    LET api_key == TextInput(environ.model, in.api_key)
        search_key == TextInput(environ.search, in.search_key)
        errors == ValidateClick(a, api_key, search_key, in.preferences, in.geography)
        data == RequestData(in)
        r == RunAnalysis(a, data, api_key, search_key, o)
    IN IF errors # <<>>
       THEN [environ |-> environ, st |-> st, msgs |-> errors, request |-> <<>>,
             inits |-> 0, tasks |-> <<>>, kickoffs |-> 0]
       ELSE [environ |-> IF r.writes = 0 THEN environ ELSE r.environ,
             st |-> IF Truthy(r.ret)
                    THEN [st EXCEPT !.report = r.ret, !.done = TRUE]
                    ELSE st,
             msgs |-> r.msgs \o (IF Truthy(r.ret) THEN SuccessMsgs(a) ELSE <<>>),
             request |-> <<data>>,
             inits |-> r.inits,
             tasks |-> r.tasks,
             kickoffs |-> r.kickoffs]

\* Whether a click with these inputs starts an analysis on page a.
StartsAnalysis(a, environ, in) ==
    /\ in.clicked
    /\ ValidateClick(a, TextInput(environ.model, in.api_key),
                     TextInput(environ.search, in.search_key),
                     in.preferences, in.geography) = <<>>

\* main of page a up to the end of the button's branch, for a session whose
\* state is st0, in a process whose environment is environ: the session
\* state is initialised, and a click is handled.
main_button(a, environ, st0, in, o) ==
    IF in.clicked
    THEN HandleClick(a, environ, InitSessionState(st0), in, o)
    ELSE [environ |-> environ, st |-> InitSessionState(st0), msgs |-> <<>>, request |-> <<>>,
          inits |-> 0, tasks |-> <<>>, kickoffs |-> 0]

\* A page whose projection chart depends on the stored report.
main_page_chart_by_report(a, environ, in, c, now) ==
    [env_key |-> environ.model,
     env_search |-> environ.search,
     active |-> environ.model # "" /\ environ.search # "",
     api_key |-> TextInput(environ.model, in.api_key),
     search_key |-> TextInput(environ.search, in.search_key),
     projection |-> ProjectionChart(a, IF c.st.done THEN MaxHorizon ELSE in.time_horizon),
     trend |-> create_trend_chart(a),
     msgs |-> c.msgs,
     request |-> c.request,
     inits |-> c.inits,
     tasks |-> c.tasks,
     kickoffs |-> c.kickoffs,
     shown |-> IF ShowsReport(c.st) THEN <<Str(c.st.report)>> ELSE <<>>,
     download |-> IF ShowsReport(c.st)
                  THEN << [data |-> DownloadData(a, c.st.report),
                           file_name |-> DownloadName(a, now),
                           mime |-> "text/markdown"] >>
                  ELSE <<>>]

\* The page main of page a draws: the sidebar and the charts from the
\* environment at the start of the run and the inputs, the rest from what
\* the button's branch did (c).
main_page(a, environ, in, c, now) ==
    [env_key |-> environ.model,
     env_search |-> environ.search,
     active |-> environ.model # "" /\ environ.search # "",
     api_key |-> TextInput(environ.model, in.api_key),
     search_key |-> TextInput(environ.search, in.search_key),
     projection |-> ProjectionChart(a, in.time_horizon),
     trend |-> create_trend_chart(a),
     msgs |-> c.msgs,
     request |-> c.request,
     inits |-> c.inits,
     tasks |-> c.tasks,
     kickoffs |-> c.kickoffs,
     shown |-> IF ShowsReport(c.st) THEN <<Str(c.st.report)>> ELSE <<>>,
     download |-> IF ShowsReport(c.st)
                  THEN << [data |-> DownloadData(a, c.st.report),
                           file_name |-> DownloadName(a, now),
                           mime |-> "text/markdown"] >>
                  ELSE <<>>]

\* ------------------------------------------------------------------------
\* utils.py
\* ------------------------------------------------------------------------

UtilsMinAmount == 1000
UtilsMaxAmount == 10000000

AmountTooSmallError == "Investment amount should be at least 1,000"
AmountTooLargeError == "Investment amount exceeds maximum limit of 10,000,000"
NoPreferencesError == "Please select at least one investment preference"
NoGeographyError == "Please select at least one geographic preference"

\* A validation that refuses the least amount as well.
validate_investment_inputs_strict(amount, preferences, geography) ==
    (IF amount <= UtilsMinAmount THEN <<AmountTooSmallError>> ELSE <<>>)
    \o (IF amount > UtilsMaxAmount THEN <<AmountTooLargeError>> ELSE <<>>)
    \o (IF preferences = <<>> THEN <<NoPreferencesError>> ELSE <<>>)
    \o (IF geography = <<>> THEN <<NoGeographyError>> ELSE <<>>)

\* utils.validate_investment_inputs: the list of errors.
validate_investment_inputs(amount, preferences, geography) ==
    (IF amount < UtilsMinAmount THEN <<AmountTooSmallError>> ELSE <<>>)
    \o (IF amount > UtilsMaxAmount THEN <<AmountTooLargeError>> ELSE <<>>)
    \o (IF preferences = <<>> THEN <<NoPreferencesError>> ELSE <<>>)
    \o (IF geography = <<>> THEN <<NoGeographyError>> ELSE <<>>)

\* ------------------------------------------------------------------------
\* utils.py: the growth scenarios
\* ------------------------------------------------------------------------

\* The numbers of the growth formulas are kept exact.  A natural number of
\* any size is the sequence of its base-100 digits, lowest first (<<>> is
\* 0); a value is [num, scale] and stands for num / 1000^scale.  The floats
\* of the code are these values rounded to 53 significant bits.
RECURSIVE BigOf(_)
BigOf(n) == IF n = 0 THEN <<>> ELSE <<n % 100>> \o BigOf(n \div 100)

RECURSIVE BigTimesCarry(_, _, _)
BigTimesCarry(x, m, carry) ==
    IF x = <<>> THEN BigOf(carry)
    ELSE <<(x[1] * m + carry) % 100>> \o BigTimesCarry(Tail(x), m, (x[1] * m + carry) \div 100)

\* x * m for a natural number m below 2 * 10^7.
BigTimes(x, m) == IF m = 0 THEN <<>> ELSE BigTimesCarry(x, m, 0)

RECURSIVE BigPower(_, _)
BigPower(b, n) == IF n = 0 THEN BigOf(1) ELSE BigTimes(BigPower(b, n - 1), b)

RECURSIVE BigLess(_, _)
BigLess(x, y) ==
    IF Len(x) # Len(y) THEN Len(x) < Len(y)
    ELSE IF x = <<>> THEN FALSE
    ELSE IF x[Len(x)] # y[Len(y)] THEN x[Len(x)] < y[Len(y)]
    ELSE BigLess(SubSeq(x, 1, Len(x) - 1), SubSeq(y, 1, Len(y) - 1))

\* The annual rates of the three scenarios, in thousandths.
conservative_rate == 50
moderate_rate == 85
aggressive_rate == 135

\* Growth by simple interest: principal * (1 + rate * years).
calculate_simple_growth(principal, rate, years) ==
    [num |-> BigTimes(BigOf(1000 + rate * years), principal), scale |-> 1]

\* utils.calculate_compound_growth: principal * (1 + rate) ** years, the
\* power first, for a principal that is a natural number.
calculate_compound_growth(principal, rate, years) ==
    [num |-> BigTimes(BigPower(1000 + rate, years), principal), scale |-> years]

\* Scenarios whose moderate and aggressive rates are exchanged.
generate_roi_scenarios_exchanged(amount, years) ==
    LET ys == [i \in 1..years |-> i]
    IN [years |-> ys,
        conservative |-> [i \in DOMAIN ys |-> calculate_compound_growth(amount, conservative_rate, ys[i])],
        moderate |-> [i \in DOMAIN ys |-> calculate_compound_growth(amount, aggressive_rate, ys[i])],
        aggressive |-> [i \in DOMAIN ys |-> calculate_compound_growth(amount, moderate_rate, ys[i])]]

\* utils.generate_roi_scenarios: the years list(range(1, years + 1)) and,
\* appended year by year, the three values of each year.
generate_roi_scenarios(amount, years) ==
    LET ys == [i \in 1..years |-> i]
    IN [years |-> ys,
        conservative |-> [i \in DOMAIN ys |-> calculate_compound_growth(amount, conservative_rate, ys[i])],
        moderate |-> [i \in DOMAIN ys |-> calculate_compound_growth(amount, moderate_rate, ys[i])],
        aggressive |-> [i \in DOMAIN ys |-> calculate_compound_growth(amount, aggressive_rate, ys[i])]]

\* ------------------------------------------------------------------------
\* utils.py: format_currency
\* ------------------------------------------------------------------------

\* The table of symbols as the source file holds it.  A character outside
\* ASCII is written \uXXXX: the entries of EUR, GBP and INR are the
\* characters U+201A U+00C7 U+00A8, U+00AC U+00A3 and U+201A U+00C7 U+03C0.
symbols ==
    [USD |-> "$",
     EUR |-> "\\u201a\\u00c7\\u00a8",
     GBP |-> "\\u00ac\\u00a3",
     PKR |-> "Rs.",
     INR |-> "\\u201a\\u00c7\\u03c0",
     AED |-> "AED "]

RECURSIVE Log2Floor(_)
Log2Floor(n) == IF n < 2 THEN 0 ELSE 1 + Log2Floor(n \div 2)

RECURSIVE PowerMod(_, _, _)
PowerMod(b, n, m) == IF n = 0 THEN 1 % m ELSE (b * PowerMod(b, n - 1, m)) % m

\* Whether the float nearest to m / 200 (m odd, m >= 200: a number with
\* three decimals ending in 5) is printed with its second decimal raised.
\* The number is a float itself when 25 divides m, and then a tie goes to
\* the even digit; otherwise the float lies above it exactly when the
\* fraction cut from its 53-bit significand, a number of 25ths, is more
\* than a half.
TieRoundsUp(m) ==
    IF m % 25 = 0 THEN ((m - 1) \div 2) % 2 = 1
    ELSE ((m % 25) * PowerMod(2, 49 - Log2Floor(m \div 200), 25)) % 25 > 12

\* f"{n / d:.2f}" for an int n and d in {1, 1000, 1000000}: the quotient of
\* the true division is the float nearest to n / d, and the format prints
\* that float rounded to two decimals.
Format2f(n, d) ==
    LET a == IF n < 0 THEN -n ELSE n
        h == (100 * a) \div d
        rem == (100 * a) % d
        up == IF 2 * rem = d THEN TieRoundsUp(2 * h + 1) ELSE 2 * rem > d
        q == IF up THEN h + 1 ELSE h
    IN (IF n < 0 THEN "-" ELSE "") \o IntToStr(q \div 100) \o "." \o Pad2(q % 100)

\* utils.format_currency for an int amount.
format_currency(amount, currency) ==
    LET symbol == IF currency \in DOMAIN symbols THEN symbols[currency] ELSE currency \o " "
    IN IF amount >= 1000000 THEN symbol \o Format2f(amount, 1000000) \o "M"
       ELSE IF amount >= 1000 THEN symbol \o Format2f(amount, 1000) \o "K"
       ELSE symbol \o Format2f(amount, 1)

\* ------------------------------------------------------------------------
\* The inputs of the model: the sessions, what the users enter, what the
\* external library does, and the clock.
\* ------------------------------------------------------------------------

Sessions == {"s1", "s2"}

\* The credentials the environment (.env) may provide, and those typed.
EnvModelKey == "sk-env-model"
EnvSearchKey == "serper-env"
TypedModelKey == "sk-typed-model"
TypedSearchKey == "serper-typed"

\* The two key inputs, each left at its default (<<>>) or typed into.
DefaultKeys == [api_key |-> <<>>, search_key |-> <<>>]
TypedKeys == [api_key |-> <<TypedModelKey>>, search_key |-> <<TypedSearchKey>>]
NoModelKey == [api_key |-> <<"">>, search_key |-> <<TypedSearchKey>>]
NoSearchKey == [api_key |-> <<TypedModelKey>>, search_key |-> <<"">>]

\* Selections of the two multiselects, in the order selected.
NoSelection == <<>>
SomePreferences == <<"Stock Market", "ETFs">>
SomeGeography == <<"Local/Domestic">>

\* Settings of amount, currency, risk tolerance and time horizon: the least,
\* the defaults of the widgets, and the greatest.
LeastParameters ==
    [amount |-> MinAmount, currency |-> "USD", risk_tolerance |-> "Very Low", time_horizon |-> MinHorizon]
DefaultParameters ==
    [amount |-> DefaultAmount, currency |-> "EUR", risk_tolerance |-> "Medium", time_horizon |-> DefaultHorizon]
OtherParameters ==
    [amount |-> MinAmount, currency |-> "GBP", risk_tolerance |-> "High", time_horizon |-> DefaultHorizon]
GreatestParameters ==
    [amount |-> MaxAmount, currency |-> "AED", risk_tolerance |-> "Very High", time_horizon |-> MaxHorizon]
\* Entries of an amount the widget does not permit.
TooSmallParameters ==
    [amount |-> MinAmount - 1, currency |-> "PKR", risk_tolerance |-> "Low", time_horizon |-> MinHorizon]
TooLargeParameters ==
    [amount |-> MaxAmount + 1, currency |-> "INR", risk_tolerance |-> "Low", time_horizon |-> MinHorizon]

Form(clicked, k, p, g, m) ==
    [clicked |-> clicked, api_key |-> k.api_key, search_key |-> k.search_key,
     preferences |-> p, geography |-> g,
     amount |-> m.amount, currency |-> m.currency, risk_tolerance |-> m.risk_tolerance,
     time_horizon |-> m.time_horizon]

\* The widget states of a run: complete forms with each setting of the
\* parameters, and forms lacking a key, a selection, or both.
Inputs(clicked) ==
    { Form(clicked, DefaultKeys, SomePreferences, SomeGeography, DefaultParameters),
      Form(clicked, TypedKeys, SomePreferences, SomeGeography, LeastParameters),
      Form(clicked, TypedKeys, SomePreferences, SomeGeography, GreatestParameters),
      Form(clicked, TypedKeys, SomePreferences, SomeGeography, TooSmallParameters),
      Form(clicked, TypedKeys, SomePreferences, SomeGeography, TooLargeParameters),
      Form(clicked, NoModelKey, SomePreferences, SomeGeography, OtherParameters),
      Form(clicked, NoSearchKey, SomePreferences, SomeGeography, OtherParameters),
      Form(clicked, TypedKeys, NoSelection, SomeGeography, OtherParameters),
      Form(clicked, TypedKeys, SomePreferences, NoSelection, OtherParameters),
      Form(clicked, TypedKeys, NoSelection, NoSelection, OtherParameters),
      Form(clicked, NoModelKey, NoSelection, NoSelection, OtherParameters) }

ShortText == "Buy index funds."
\* 200 characters, none of them white space at either end.
GoodText == Repeat("Hold ETFs.", 20)

\* 200 characters and more, with one of the phrases of a failed search.
BadText == "Unable to provide data. " \o GoodText

\* What Crew.kickoff returns.
Results == { PyNone, PyStr(""), PyStr(ShortText), CrewOutput(GoodText), CrewOutput(BadText) }

\* More than 200 characters, fewer than 200 without the white space around.
PaddedText == "  \n" \o Repeat("Hold ETFs.", 19) \o Repeat(" ", 15)
\* 200 characters and more, with the other phrase in capitals.
CapitalsText == GoodText \o " In the ABSENCE OF data."
\* Texts of 200 characters for the attributes output and result and for
\* the string form of a result object.
OutputText == Repeat("Buy bonds.", 20)
ResultText == Repeat("Sell gold.", 20)
ObjectText == Repeat("Keep cash.", 20)

\* Results of every shape the conversion of run_analysis tells apart: a
\* str, objects with and without the attributes raw, output and result,
\* an attribute that is None or too short beside one that is long enough.
RichResults ==
    Results \cup
    { PyStr(GoodText), CrewOutput(PaddedText), CrewOutput(CapitalsText),
      PyObj(ObjectText, <<>>, <<>>, <<>>),
      PyObj(ObjectText, <<>>, <<>>, <<PyStr(ResultText)>>),
      PyObj(ObjectText, <<>>, <<PyStr(OutputText)>>, <<PyStr(ResultText)>>),
      PyObj(ObjectText, <<PyStr(GoodText)>>, <<PyStr(OutputText)>>, <<PyStr(ResultText)>>),
      PyObj(ObjectText, <<PyStr(ShortText)>>, <<PyStr(OutputText)>>, <<>>),
      PyObj(ObjectText, <<PyNone>>, <<PyStr(OutputText)>>, <<>>) }

Exceptions ==
    { Raises("kickoff", "Rate limit reached for requests"),
      Raises("init", "Connection timed out") }

Outcomes == {Returns(v) : v \in Results} \cup Exceptions

\* No analysis started: the library was not called.
NoOutcome == [raises |-> FALSE, stage |-> "none", msg |-> "", value |-> PyNone, exc |-> ""]

NumClockValues == 2
ClockValue(i) ==
    [year |-> 2023 + i, month |-> i, day |-> 10 - i, hour |-> 9 * i, minute |-> 5 * i, second |-> 0]
Clock == {ClockValue(i) : i \in 1..NumClockValues}
\* The clock was not read.
NoClock == [year |-> 0, month |-> 0, day |-> 0, hour |-> 0, minute |-> 0, second |-> 0]

\* ------------------------------------------------------------------------
\* test_setup.py, the installation test.  A printed line is kept without
\* its leading symbol: Ok stands for the check mark, Bad for the cross.
\* A value of the environment is <<>> (the variable is not set, os.getenv
\* gives None) or <<v>>.
\* ------------------------------------------------------------------------

Ok(text) == "[ok] " \o text
Bad(text) == "[x] " \o text
Banner == Repeat("=", 60)

StartsWith(s, p) == Len(s) >= Len(p) /\ SubSeq(s, 1, Len(p)) = p

\* check_python_version.
check_python_version(version) ==
    LET shown == IntToStr(version.major) \o "." \o IntToStr(version.minor)
                 \o "." \o IntToStr(version.micro)
    IN IF version.major < 3 \/ (version.major = 3 /\ version.minor < 9)
       THEN [raised |-> FALSE, ok |-> FALSE, requests |-> <<>>,
             out |-> << Bad("Python 3.9 or higher is required"),
                        "   Current version: " \o shown >>]
       ELSE [raised |-> FALSE, ok |-> TRUE, requests |-> <<>>,
             out |-> << Ok("Python version: " \o shown) >>]

required_packages ==
    << "streamlit", "crewai", "crewai_tools", "langchain_community", "langchain_openai", "openai" >>

\* What __import__(package) does: "ok", "missing" (it raises ImportError)
\* or "broken" (it raises another exception).
\* check_dependencies: one line per package up to the first broken one,
\* whose exception leaves the function.
check_dependencies(imports) ==
    LET n == Len(required_packages)
        broken == {i \in 1..n : imports[required_packages[i]] = "broken"}
        last == IF broken = {} THEN n ELSE (CHOOSE i \in broken : \A j \in broken : i <= j) - 1
        line(i) == IF imports[required_packages[i]] = "ok"
                   THEN Ok(required_packages[i] \o " installed")
                   ELSE Bad(required_packages[i] \o " not installed")
        lines == [i \in 1..last |-> line(i)]
        missing_packages ==
            SelectSeq(SubSeq(required_packages, 1, last), LAMBDA p : imports[p] = "missing")
    IN IF broken # {}
       THEN [raised |-> TRUE, ok |-> FALSE, requests |-> <<>>, out |-> lines, missing |-> missing_packages]
       ELSE IF missing_packages # <<>>
       THEN [raised |-> FALSE, ok |-> FALSE, requests |-> <<>>,
             out |-> lines \o << "", "To install missing packages, run:",
                                 "pip install -r requirements.txt" >>,
             missing |-> missing_packages]
       ELSE [raised |-> FALSE, ok |-> TRUE, requests |-> <<>>, out |-> lines, missing |-> missing_packages]

required_vars ==
    << [var |-> "OPENAI_API_KEY", description |-> "OpenAI API Key"],
       [var |-> "SERPER_API_KEY", description |-> "Serper API Key"] >>
EnvVars == {required_vars[i].var : i \in 1..Len(required_vars)}

\* load_dotenv(): a variable of the .env file is added to the environment
\* unless the environment has it already.
load_dotenv(environ, dotenv) ==
    [v \in EnvVars |-> IF environ[v] # <<>> THEN environ[v] ELSE dotenv[v]]

\* The key as the check prints it.
masked_key(value) ==
    IF Len(value) > 12
    THEN SubSeq(value, 1, 8) \o "..." \o SubSeq(value, Len(value) - 3, Len(value))
    ELSE "***"

\* "not value or value.startswith('your_')" of a value of the environment.
NotSetOrInvalid(value) == value = <<>> \/ value[1] = "" \/ StartsWith(value[1], "your_")

\* The loop of check_env_variables and its end, over the variables given.
CheckVars(environ, variables) ==
    LET line(i) == IF NotSetOrInvalid(environ[variables[i].var])
                   THEN Bad(variables[i].description \o " not set or invalid")
                   ELSE Ok(variables[i].description \o " set: "
                           \o masked_key(environ[variables[i].var][1]))
        lines == [i \in 1..Len(variables) |-> line(i)]
        found == SelectSeq(variables, LAMBDA r : NotSetOrInvalid(environ[r.var]))
        missing_vars == [i \in 1..Len(found) |-> found[i].var]
    IN IF missing_vars # <<>>
       THEN [raised |-> FALSE, ok |-> FALSE, requests |-> <<>>,
             out |-> lines \o << "", "Please set the following in your .env file:" >>
                     \o [i \in 1..Len(missing_vars) |->
                           "  " \o missing_vars[i] \o "=your_actual_key_here"],
             missing |-> missing_vars]
       ELSE [raised |-> FALSE, ok |-> TRUE, requests |-> <<>>, out |-> lines, missing |-> missing_vars]

\* A check of the environment that stops at the first variable it rejects.
check_env_variables_first_only(imports, environ, dotenv) ==
    LET loaded == load_dotenv(environ, dotenv)
    IN IF NotSetOrInvalid(loaded[required_vars[1].var])
       THEN CheckVars(loaded, SubSeq(required_vars, 1, 1))
       ELSE CheckVars(loaded, required_vars)

\* check_env_variables: the import of dotenv stands outside any try, its
\* exception leaves the function before anything is examined.
check_env_variables(imports, environ, dotenv) ==
    IF imports["dotenv"] # "ok"
    THEN [raised |-> TRUE, ok |-> FALSE, requests |-> <<>>, out |-> <<>>, missing |-> <<>>]
    ELSE CheckVars(load_dotenv(environ, dotenv), required_vars)

\* test_openai_connection: the request is made with the key of the
\* environment; conn is what the request does, "ok" or the message of the
\* exception it raises.  An exception of the import or of the client
\* without any key is caught like that of the request.
test_openai_connection(imports, environ, conn) ==
    IF imports["openai"] # "ok"
    THEN [raised |-> FALSE, ok |-> FALSE, requests |-> <<>>,
          out |-> << Bad("OpenAI API connection failed: No module named 'openai'") >>]
    ELSE IF environ["OPENAI_API_KEY"] = <<>>
    THEN [raised |-> FALSE, ok |-> FALSE, requests |-> <<>>,
          out |-> << Bad("OpenAI API connection failed: The api_key client option must be set") >>]
    ELSE IF conn = "ok"
    THEN [raised |-> FALSE, ok |-> TRUE, requests |-> << environ["OPENAI_API_KEY"][1] >>,
          out |-> << Ok("OpenAI API connection successful") >>]
    ELSE [raised |-> FALSE, ok |-> FALSE, requests |-> << environ["OPENAI_API_KEY"][1] >>,
          out |-> << Bad("OpenAI API connection failed: " \o conn) >>]

SuccessBanner ==
    << Banner, Ok("All checks passed! You're ready to run the application."), Banner, "",
       "To start the application, run:", "  streamlit run app.py", "" >>
FailureBanner == << Banner, Bad("Some checks failed. Please fix the issues above."), Banner >>

\* The run of main that did not come to an end yet: what was printed, the
\* checks called in their order, the keys the connection was tried with.
Started ==
    [returned |-> FALSE, code |-> -1,
     out |-> << Banner, "AI Financial Trading Crew - Installation Test", Banner, "" >>,
     checks |-> <<>>, requests |-> <<>>]
Step(run, name, heading, r) ==
    [run EXCEPT !.out = @ \o <<heading>> \o r.out \o (IF r.raised THEN <<>> ELSE <<"">>),
                !.checks = Append(@, name),
                !.requests = @ \o r.requests]
Return(run, banner, code) ==
    [run EXCEPT !.out = @ \o banner, !.returned = TRUE, !.code = code]

\* The end of main after the three local checks.
Finish(run, local_ok, imports, environ, conn) ==
    IF local_ok
    THEN LET api == test_openai_connection(imports, environ, conn)
             tested == Step(run, "test_openai_connection", "Testing OpenAI connection...", api)
         IN IF api.ok THEN Return(tested, SuccessBanner, 0)
            ELSE Return(tested, FailureBanner, 1)
    ELSE Return(run, FailureBanner, 1)

\* A main that takes the three local checks for the whole test.
main_without_connection_result(version, imports, environ, dotenv, conn) ==
    LET python == check_python_version(version)
        deps == check_dependencies(imports)
        vars_ == check_env_variables(imports, environ, dotenv)
        r1 == Step(Started, "check_python_version", "Checking Python version...", python)
        r2 == Step(r1, "check_dependencies", "Checking dependencies...", deps)
        r3 == Step(r2, "check_env_variables", "Checking environment variables...", vars_)
    IN IF deps.raised THEN r2
       ELSE IF vars_.raised THEN r3
       ELSE IF python.ok /\ deps.ok /\ vars_.ok
       THEN LET api == test_openai_connection(imports, load_dotenv(environ, dotenv), conn)
                tested == Step(r3, "test_openai_connection", "Testing OpenAI connection...", api)
            IN Return(tested, SuccessBanner, 0)
       ELSE Return(r3, FailureBanner, 1)

\* A main that tests the connection whatever the local checks gave.
main_connection_always(version, imports, environ, dotenv, conn) ==
    LET python == check_python_version(version)
        deps == check_dependencies(imports)
        vars_ == check_env_variables(imports, environ, dotenv)
        r1 == Step(Started, "check_python_version", "Checking Python version...", python)
        r2 == Step(r1, "check_dependencies", "Checking dependencies...", deps)
        r3 == Step(r2, "check_env_variables", "Checking environment variables...", vars_)
    IN IF deps.raised THEN r2
       ELSE IF vars_.raised THEN r3
       ELSE LET api == test_openai_connection(imports, load_dotenv(environ, dotenv), conn)
                tested == Step(r3, "test_openai_connection", "Testing OpenAI connection...", api)
            IN IF python.ok /\ deps.ok /\ vars_.ok /\ api.ok
               THEN Return(tested, SuccessBanner, 0)
               ELSE Return(tested, FailureBanner, 1)

\* test_setup.main: the three local checks in their order, each whatever
\* the ones before it gave; the connection test after all three passed.
\* An exception that leaves a check leaves main: it does not return.
main(version, imports, environ, dotenv, conn) ==
    LET python == check_python_version(version)
        deps == check_dependencies(imports)
        vars_ == check_env_variables(imports, environ, dotenv)
        r1 == Step(Started, "check_python_version", "Checking Python version...", python)
        r2 == Step(r1, "check_dependencies", "Checking dependencies...", deps)
        r3 == Step(r2, "check_env_variables", "Checking environment variables...", vars_)
    IN IF deps.raised THEN r2
       ELSE IF vars_.raised THEN r3
       ELSE Finish(r3, python.ok /\ deps.ok /\ vars_.ok,
                   imports, load_dotenv(environ, dotenv), conn)

\* What test_setup.py is run on.
Version(major, minor, micro) == [major |-> major, minor |-> minor, micro |-> micro]
SetupVersions == { Version(2, 7, 18), Version(3, 8, 10), Version(3, 9, 0), Version(3, 12, 4) }

Packages == Range(required_packages) \cup {"dotenv"}
AllInstalled == [p \in Packages |-> "ok"]
SetupImports ==
    { AllInstalled,
      [AllInstalled EXCEPT !["crewai"] = "missing"],
      [AllInstalled EXCEPT !["streamlit"] = "missing", !["openai"] = "missing"],
      [AllInstalled EXCEPT !["dotenv"] = "missing"],
      [AllInstalled EXCEPT !["crewai_tools"] = "broken", !["openai"] = "missing"] }

\* Keys of 12, 13, 15 and 24 characters; the one of 15 has three dots as
\* its characters 9 to 11.
Key12 == "sk-proj-1234"
Key13 == "sk-proj-12345"
Key15 == "sk-proj-...wxyz"
Key24 == "sk-proj-abcdefghijkl1234"
Placeholder == "your_openai_api_key_here"
OpenAIValues == { <<>>, <<"">>, <<Placeholder>>, <<Key12>>, <<Key13>>, <<Key15>>, <<Key24>> }
SerperValues == { <<>>, <<"your_serper_api_key_here">>, <<"serper-01">>, <<"0123456789abcdef">> }
Environment(openai, serper) ==
    [v \in EnvVars |-> IF v = "OPENAI_API_KEY" THEN openai ELSE serper]
SetupEnvironments == {Environment(o, s) : o \in OpenAIValues, s \in SerperValues}
\* The .env file: none, one with both keys, one with the placeholder left in.
DotEnvFiles ==
    { Environment(<<>>, <<>>),
      Environment(<<Key24>>, <<"0123456789abcdef">>),
      Environment(<<Placeholder>>, <<>>) }
Connections == {"ok", "Connection error."}

NoSetup ==
    [ran |-> FALSE, version |-> Version(0, 0, 0), imports |-> AllInstalled,
     environ |-> Environment(<<>>, <<>>), dotenv |-> Environment(<<>>, <<>>), conn |-> "ok",
     env_check |-> [raised |-> FALSE, ok |-> FALSE, requests |-> <<>>, out |-> <<>>, missing |-> <<>>],
     run |-> Started]

\* ------------------------------------------------------------------------
\* Two sessions of one server process.  Streamlit runs the script of each
\* session in a thread of its own; os.environ belongs to the process.  An
\* analysis is followed statement by statement: the two writes of
\* initialize_system, the construction of the search tool and the model
\* client, the kickoff.  The libraries are given no key by app and final
\* and read the environment, when they are built or when they call their
\* provider; claude hands its model client the key as an argument.
\* ------------------------------------------------------------------------

SessionKeys(s) ==
    IF s = "s1" THEN [model |-> TypedModelKey, search |-> TypedSearchKey]
    ELSE [model |-> "sk-other-model", search |-> "serper-other"]
NoKeys == [model |-> "", search |-> ""]

NoRace ==
    [app |-> "none", environ |-> NoKeys,
     pc |-> [s \in Sessions |-> "idle"],
     built |-> [s \in Sessions |-> NoKeys],
     used |-> [s \in Sessions |-> NoKeys]]

\* The calls of the growth and formatting functions of utils.py and of the
\* chart functions: the amounts (ints), the horizons and the currencies.
MaxYears == 10
ScenarioAmounts ==
    {0, 1, 7, 1000, 1001, 50000, 100000, 999999, 1000000, 2500000, 9999999, 10000000}
ScenarioYears == 0..MaxYears
ChartYears == MinHorizon..MaxYears

\* Amounts on both sides of each threshold, negative ones, and amounts whose
\* thousandth or millionth part has a 5 as its third decimal.
FormatAmounts ==
    {-1500, -1, 0, 1, 999, 1000, 1005, 1125, 1165, 1234, 1375, 999994, 999995, 999999,
     1000000, 1005000, 1125000, 1165000, 1234567, 2500000, 10000000, 12345678}
FormatCurrencies == {"USD", "EUR", "GBP", "PKR", "INR", "AED", "JPY", "CHF"}

NoScenarios == [years |-> <<>>, conservative |-> <<>>, moderate |-> <<>>, aggressive |-> <<>>]
NoChart == [title |-> "", traces |-> <<>>]
NoCalc ==
    [fn |-> "none", calls |-> 0, app |-> "none", amount |-> 0, years |-> 0, currency |-> "",
     scenarios |-> NoScenarios, chart |-> NoChart, text |-> ""]

\* ------------------------------------------------------------------------
\* The state.
\*   env[a]     the process environment of page a's server (the two keys)
\*   ss[a][s]   st.session_state of session s on page a
\*   view       the latest run of the page: whose it was, its inputs, what
\*              the library did in it, and the page each app drew
\*   call       the analysis run on its own: the page, what the
\*              library did, the value returned and the messages shown
\*   validated  the latest call of utils.validate_investment_inputs: its
\*              arguments and the errors returned
\*   setup      the run of test_setup.py: what it ran on, what its check of
\*              the environment gave, and the run of main
\*   race       the analyses of two sessions of one process, statement by
\*              statement: the page served, os.environ, where each
\*              session stands, the keys its libraries read when built,
\*              the keys its providers were called with
\*   calc       the latest call of a growth, chart or formatting function:
\*              its arguments and what it returned
\* ------------------------------------------------------------------------

VARIABLES env, ss, view, call, validated, setup, race, calc

vars == <<env, ss, view, call, validated, setup, race, calc>>

NoCall ==
    [app |-> "none", outcome |-> NoOutcome, ret |-> PyNone, msgs |-> <<>>, propagated |-> FALSE]
NoValidation ==
    [called |-> FALSE, amount |-> 0, preferences |-> <<>>, geography |-> <<>>, errors |-> <<>>]

NoInputs ==
    [clicked |-> FALSE, api_key |-> <<>>, search_key |-> <<>>, preferences |-> <<>>,
     geography |-> <<>>, amount |-> DefaultAmount, currency |-> "USD",
     risk_tolerance |-> "Medium", time_horizon |-> MinHorizon]

Init ==
    /\ \E k \in {[model |-> "", search |-> ""], [model |-> EnvModelKey, search |-> EnvSearchKey]} :
          env = [a \in Apps |-> k]
    /\ ss = [a \in Apps |-> [s \in Sessions |-> NewSession]]
    /\ view = [session |-> "none", in |-> NoInputs, outcome |-> NoOutcome, now |-> NoClock,
               page |-> <<>>]
    /\ call = NoCall
    /\ validated = NoValidation
    /\ setup = NoSetup
    /\ race = NoRace
    /\ calc = NoCalc

\* The three pages run for session s on the same inputs, up to the end of
\* the button's branch.
ButtonAll(s, in, o) ==
    [app |-> main_button("app", env["app"], ss["app"][s], in, o),
     final |-> main_button("final", env["final"], ss["final"][s], in, o),
     claude |-> main_button("claude", env["claude"], ss["claude"][s], in, o)]

\* One run of the page script for session s with inputs in, in which the
\* library does o.  The clock is read only to name the download of a report.
Run(s, in, o) ==
    \E c \in {ButtonAll(s, in, o)} :
      \E now \in (IF \E a \in Apps : ShowsReport(c[a].st) THEN Clock ELSE {NoClock}) :
          /\ env' = [a \in Apps |-> c[a].environ]
          /\ ss' = [a \in Apps |-> [ss[a] EXCEPT ![s] = c[a].st]]
          /\ view' = [session |-> s, in |-> in, outcome |-> o, now |-> now,
                      page |-> [a \in Apps |-> main_page(a, env[a], in, c[a], now)]]
          /\ UNCHANGED <<call, validated, setup, race, calc>>

\* A run of the page that is not a button click: the first load, or a rerun
\* after a widget changed.
Load(s, forms) == \E in \in forms : Run(s, in, NoOutcome)

\* A run of the page caused by a click on the generate / start button.
Press(s, forms, outcomes) ==
    \E in \in forms :
        \E o \in (IF \E a \in Apps : StartsAnalysis(a, env[a], in) THEN outcomes ELSE {NoOutcome}) :
            Run(s, in, o)

\* One visitor, every form and every outcome.
LoadForms == Inputs(FALSE)
ClickForms == Inputs(TRUE)
Rerun == Load("s1", LoadForms)
Click == Press("s1", ClickForms, Outcomes)

Next == Rerun \/ Click

Spec == Init /\ [][Next]_vars

\* Two visitors of the same server, complete forms only.
SharedInputs(clicked) ==
    { Form(clicked, DefaultKeys, SomePreferences, SomeGeography, DefaultParameters),
      Form(clicked, TypedKeys, SomePreferences, SomeGeography, LeastParameters) }
SharedOutcomes == { Returns(PyNone), Returns(PyStr(ShortText)), Returns(CrewOutput(GoodText)) }

SharedLoadForms == SharedInputs(FALSE)
SharedClickForms == SharedInputs(TRUE)
RerunShared(s) == Load(s, SharedLoadForms)
ClickShared(s) == Press(s, SharedClickForms, SharedOutcomes)

NextShared == \E s \in Sessions : RerunShared(s) \/ ClickShared(s)

SpecShared == Init /\ [][NextShared]_vars

\* One visitor with a complete form, every shape of result.
ReportInputs(clicked) ==
    { Form(clicked, TypedKeys, SomePreferences, SomeGeography, OtherParameters) }
ReportOutcomes == {Returns(v) : v \in RichResults}

ReportLoadForms == ReportInputs(FALSE)
ReportClickForms == ReportInputs(TRUE)
RerunReports == Load("s1", ReportLoadForms)
ClickReports == Press("s1", ReportClickForms, ReportOutcomes)

NextReports == RerunReports \/ ClickReports

SpecReports == Init /\ [][NextReports]_vars

\* ------------------------------------------------------------------------
\* An analysis on its own, for every way the library may fail.
\* ------------------------------------------------------------------------

\* The words of the library's exception messages.
ErrorWords ==
    {"AuthenticationError", "Unauthorized", "API", "Key", "Rate", "limit", "timeout", "generated"}
MaxErrorWords == 2
RECURSIVE ErrorPhrases(_)
ErrorPhrases(n) ==
    IF n = 0 THEN {<<>>}
    ELSE ErrorPhrases(n - 1) \cup {Append(p, w) : p \in ErrorPhrases(n - 1), w \in ErrorWords}
ErrorMessages == {Join(" ", p) : p \in ErrorPhrases(MaxErrorWords) \ {<<>>}}

\* The stages of an analysis at which something can be raised.
Stages == {"environ", "init", "tasks", "crew", "kickoff", "validate"}

AnalysisOutcomes ==
    Outcomes
    \cup {Returns(v) : v \in RichResults}
    \cup {Raises(stage, m) : stage \in {"init", "kickoff"}, m \in ErrorMessages}
    \cup {Raises(stage, "Connection timed out") : stage \in Stages}
    \cup {Interrupts(stage) : stage \in Stages}

\* Only investment_advisor_app does anything with the result of kickoff
\* before it returns it.
StagesOf(a) == IF a = "app" THEN Stages ELSE Stages \ {"validate"}

\* The request of the analyses run on their own.
AnalysisData == RequestData(Form(TRUE, TypedKeys, SomePreferences, SomeGeography, DefaultParameters))

\* One analysis of page a, run on its own: the function keeps nothing
\* from one call to the next.
Analyse(a) ==
    /\ call = NoCall
    /\ \E o \in {x \in AnalysisOutcomes : x.raises => x.stage \in StagesOf(a)} :
      \E r \in {RunAnalysis(a, AnalysisData, TypedModelKey, TypedSearchKey, o)} :
        /\ call' = [app |-> a, outcome |-> o, ret |-> r.ret, msgs |-> r.msgs,
                    propagated |-> r.propagated]
        /\ UNCHANGED <<env, ss, view, validated, setup, race, calc>>

NextAnalysis == \E a \in Apps : Analyse(a)

SpecAnalysis == Init /\ [][NextAnalysis]_vars

\* ------------------------------------------------------------------------
\* utils.validate_investment_inputs on its own.
\* ------------------------------------------------------------------------

\* How far around the least and the greatest amount the amounts are drawn.
AmountSlack == 3
AmountInputs ==
    {0, DefaultAmount}
    \cup ((UtilsMinAmount - AmountSlack) .. (UtilsMinAmount + AmountSlack))
    \cup ((UtilsMaxAmount - AmountSlack) .. (UtilsMaxAmount + AmountSlack))
PreferenceLists == {<<>>, <<"Bonds">>, <<"Stock Market", "ETFs">>}
GeographyLists == {<<>>, <<"Regional">>, <<"Local/Domestic", "International">>}

Validate ==
    \E amount \in AmountInputs, preferences \in PreferenceLists, geography \in GeographyLists :
        /\ validated' = [called |-> TRUE, amount |-> amount, preferences |-> preferences,
                         geography |-> geography,
                         errors |-> validate_investment_inputs(amount, preferences, geography)]
        /\ UNCHANGED <<env, ss, view, call, setup, race, calc>>

NextUtils == Validate

SpecUtils == Init /\ [][NextUtils]_vars

\* ------------------------------------------------------------------------
\* The installation test on its own: test_setup.py runs main once, on one
\* Python, one set of installed packages, one environment, one .env file
\* and one answer of the model provider.
\* ------------------------------------------------------------------------

\* python test_setup.py
RunSetup ==
    /\ ~setup.ran
    /\ \E version \in SetupVersions, imports \in SetupImports,
          environ \in SetupEnvironments, dotenv \in DotEnvFiles, conn \in Connections :
          setup' = [ran |-> TRUE, version |-> version, imports |-> imports,
                    environ |-> environ, dotenv |-> dotenv, conn |-> conn,
                    env_check |-> check_env_variables(imports, environ, dotenv),
                    run |-> main(version, imports, environ, dotenv, conn)]
    /\ UNCHANGED <<env, ss, view, call, validated, race, calc>>

NextSetup == RunSetup

SpecSetup == Init /\ [][NextSetup]_vars

\* The statements of the two analyses, interleaved.
\* The click of session s passed its checks: run_analysis is entered.
Start(a, s) ==
    /\ race.app \in {"none", a}
    /\ race.pc[s] = "idle"
    /\ race' = [race EXCEPT !.app = a, !.pc[s] = "write_model"]
    /\ UNCHANGED <<env, ss, view, call, validated, setup, calc>>

\* os.environ["OPENAI_API_KEY"] = api_key
WriteModelKey(s) ==
    /\ race.pc[s] = "write_model"
    /\ race' = [race EXCEPT !.environ.model = SessionKeys(s).model, !.pc[s] = "write_search"]
    /\ UNCHANGED <<env, ss, view, call, validated, setup, calc>>

\* os.environ["SERPER_API_KEY"] = search_key
WriteSearchKey(s) ==
    /\ race.pc[s] = "write_search"
    /\ race' = [race EXCEPT !.environ.search = SessionKeys(s).search, !.pc[s] = "build"]
    /\ UNCHANGED <<env, ss, view, call, validated, setup, calc>>

\* search_tool = SerperDevTool(); llm = ChatOpenAI(...) / ChatAnthropic(...,
\* anthropic_api_key=claude_api_key): what the environment holds now is
\* what a library that reads it when built will use.
BuildTools(s) ==
    /\ race.pc[s] = "build"
    /\ race' = [race EXCEPT
                  !.built[s] = [model |-> IF race.app = "claude" THEN SessionKeys(s).model
                                          ELSE race.environ.model,
                                search |-> race.environ.search],
                  !.pc[s] = "kickoff"]
    /\ UNCHANGED <<env, ss, view, call, validated, setup, calc>>

\* crew.kickoff(): each provider is called with the key its library read
\* when built, or with the one the environment holds now.
Kickoff(s) ==
    /\ race.pc[s] = "kickoff"
    /\ \E model \in {race.built[s].model} \cup
                    (IF race.app = "claude" THEN {} ELSE {race.environ.model}),
          search \in {race.built[s].search, race.environ.search} :
          race' = [race EXCEPT !.used[s] = [model |-> model, search |-> search],
                               !.pc[s] = "done"]
    /\ UNCHANGED <<env, ss, view, call, validated, setup, calc>>

NextConcurrent ==
    \E s \in Sessions :
        \/ \E a \in Apps : Start(a, s)
        \/ WriteModelKey(s)
        \/ WriteSearchKey(s)
        \/ BuildTools(s)
        \/ Kickoff(s)

SpecConcurrent == Init /\ [][NextConcurrent]_vars

\* A call of utils.generate_roi_scenarios.
Scenarios ==
    /\ calc.fn = "none"
    /\ \E amount \in ScenarioAmounts, years \in ScenarioYears :
          calc' = [NoCalc EXCEPT !.fn = "generate_roi_scenarios", !.calls = 1,
                                 !.amount = amount, !.years = years,
                                 !.scenarios = generate_roi_scenarios(amount, years)]
    /\ UNCHANGED <<env, ss, view, call, validated, setup, race>>

\* A second call of utils.generate_roi_scenarios with the arguments of the
\* first.
ScenariosAgain ==
    /\ calc.fn = "generate_roi_scenarios"
    /\ calc.calls = 1
    /\ calc' = [calc EXCEPT !.calls = 2,
                            !.scenarios = generate_roi_scenarios(calc.amount, calc.years)]
    /\ UNCHANGED <<env, ss, view, call, validated, setup, race>>

\* The projection chart of page a drawn for a time horizon.
DrawChart ==
    /\ calc.fn = "none"
    /\ \E a \in Apps, years \in ChartYears :
          calc' = [NoCalc EXCEPT !.fn = "create_projection_chart", !.calls = 1,
                                 !.app = a, !.years = years,
                                 !.chart = ProjectionChart(a, years)]
    /\ UNCHANGED <<env, ss, view, call, validated, setup, race>>

NextScenarios == Scenarios \/ ScenariosAgain \/ DrawChart

SpecScenarios == Init /\ [][NextScenarios]_vars

\* A call of utils.format_currency.
FormatCurrency ==
    /\ calc.fn = "none"
    /\ \E amount \in FormatAmounts, currency \in FormatCurrencies :
          calc' = [NoCalc EXCEPT !.fn = "format_currency", !.calls = 1,
                                 !.amount = amount, !.currency = currency,
                                 !.text = format_currency(amount, currency)]
    /\ UNCHANGED <<env, ss, view, call, validated, setup, race>>

NextFormat == FormatCurrency

SpecFormat == Init /\ [][NextFormat]_vars


\* ------------------------------------------------------------------------
\* The claims.
\* ------------------------------------------------------------------------

\* Which of the canned messages a list of messages starts with.
MessageKind(msgs) ==
    IF msgs = <<>> THEN "none"
    ELSE IF msgs[1] \in {AuthError_app, AuthError_final} THEN "authentication"
    ELSE IF msgs[1] = RateError_app THEN "rate limit"
    ELSE "other"

\* The choice by the substrings "auth", "key" and "rate".
KindBySubstring(e) ==
    LET m == Lower(e)
    IN IF Contains("auth", m) \/ Contains("key", m) THEN "authentication"
       ELSE IF Contains("rate", m) THEN "rate limit"
       ELSE "other"

\* C1 as stated: in each of the three apps the message shown for an exception
\* of the library is the authentication message when the exception message
\* contains "auth" or "key", the rate-limit message when it contains "rate",
\* and the generic error message otherwise.
C1_SameChoiceInEveryApp ==
    (call.app # "none" /\ call.outcome.raises /\ IsException(call.outcome))
        => MessageKind(call.msgs) = KindBySubstring(call.outcome.msg)

\* C1, amended: an exception of the library is caught in each app and the
\* analysis returns None; investment_advisor_app chooses by "auth" or "key",
\* then "rate", else the generic message with the exception text;
\* investment_advisor_final has no rate-limit message and chooses the
\* authentication message (with its hint) by "authentication", "api" or
\* "key", else the generic message; investment_advisor_app_claude always
\* shows the generic message.  The matching ignores case.
C1_ChoicePerApp ==
    (call.app # "none" /\ call.outcome.raises /\ IsException(call.outcome)) =>
        LET e == call.outcome.msg
            m == Lower(e)
        IN /\ call.ret = PyNone
           /\ call.app = "app" =>
                call.msgs = << CASE KindBySubstring(e) = "authentication" -> AuthError_app
                                 [] KindBySubstring(e) = "rate limit" -> RateError_app
                                 [] OTHER -> GenericError_app(e) >>
           /\ call.app = "final" =>
                call.msgs = IF Contains("authentication", m) \/ Contains("api", m) \/ Contains("key", m)
                            THEN <<AuthError_final, AuthInfo_final>>
                            ELSE <<GenericError_final(e)>>
           /\ call.app = "claude" => call.msgs = <<GenericError_claude(e)>>

\* C1, witness: investment_advisor_final has shown its generic message for
\* an exception whose message contains "rate" and none of its own patterns.
C1_FinalShowsGenericForRate ==
    /\ call.app = "final"
    /\ call.outcome.raises
    /\ Contains("rate", Lower(call.outcome.msg))
    /\ ~Contains("key", Lower(call.outcome.msg))
    /\ call.msgs = <<GenericError_final(call.outcome.msg)>>

\* C2: a run of the page calls Crew.kickoff at most once in each app, also
\* when the call raised or returned nothing usable, and a run that is not a
\* button click calls it not at all.
C2_AtMostOneKickoffPerClick ==
    view.session # "none" =>
        \A a \in Apps :
            /\ view.page[a].kickoffs <= 1
            /\ ~view.in.clicked => view.page[a].kickoffs = 0

\* C2, witness: a click in which Crew.kickoff raised, called once in each
\* app.
C2_FailedKickoffNotRetried ==
    /\ view.in.clicked
    /\ view.outcome.raises
    /\ view.outcome.stage = "kickoff"
    /\ \A a \in Apps : view.page[a].kickoffs = 1

\* C3: in every app a click while the model-provider key or the
\* search-provider key is empty shows the credentials error and nothing
\* else, initialises no agents, builds no tasks, calls the library not at
\* all, leaves the process environment as it was and leaves the done flag
\* and the stored report of the session as they were.
C3_NoAnalysisWithoutCredentials ==
    [][ \A a \in Apps :
          (view'.in.clicked /\ (view'.page[a].api_key = "" \/ view'.page[a].search_key = ""))
          => /\ view'.page[a].msgs = <<CredentialsError(a)>>
             /\ view'.page[a].inits = 0
             /\ view'.page[a].request = <<>>
             /\ view'.page[a].tasks = <<>>
             /\ view'.page[a].kickoffs = 0
             /\ env'[a] = env[a]
             /\ ss'[a][view'.session].done = ss[a][view'.session].done
             /\ ss'[a][view'.session].report = ss[a][view'.session].report ]_vars

\* C3, witness: a click without the model-provider key in a session that
\* has a report stored: the credentials error is shown and the report is
\* still stored.
C3_ClickWithoutModelKey ==
    /\ view.in.clicked
    /\ \A a \in Apps :
          /\ view.page[a].api_key = ""
          /\ view.page[a].search_key # ""
          /\ view.page[a].msgs = <<CredentialsError(a)>>
          /\ ss[a][view.session].done
          /\ Truthy(ss[a][view.session].report)

\* C4: every request handed to an analysis has an amount within
\* 1000..10000000, a time horizon within 1..30, a currency and a risk
\* tolerance among the options offered, and preferences and geography
\* joined from at least one selected option each; a click with an empty
\* selection of preferences or of geography starts no analysis.
C4_RequestsAreValidated ==
    view.session # "none" =>
        \A a \in Apps :
            /\ view.page[a].request # <<>> =>
                 LET data == view.page[a].request[1]
                 IN /\ data.amount \in MinAmount..MaxAmount
                    /\ data.time_horizon \in MinHorizon..MaxHorizon
                    /\ data.currency \in Range(CurrencyOptions)
                    /\ data.risk_tolerance \in Range(RiskOptions)
                    /\ view.in.preferences # <<>>
                    /\ Range(view.in.preferences) \subseteq Range(PreferenceOptions)
                    /\ data.preferences = Join(", ", view.in.preferences)
                    /\ view.in.geography # <<>>
                    /\ Range(view.in.geography) \subseteq Range(GeographyOptions)
                    /\ data.geography = Join(", ", view.in.geography)
            /\ (view.in.clicked /\ (view.in.preferences = <<>> \/ view.in.geography = <<>>))
                 => /\ view.page[a].request = <<>>
                    /\ view.page[a].inits = 0
                    /\ view.page[a].kickoffs = 0

\* C4, witness: a click after an amount above the greatest was entered: the
\* analysis started in each app with an amount within the range.
C4_RequestAfterEntryOutOfRange ==
    /\ view.in.clicked
    /\ view.in.amount > MaxAmount
    /\ \A a \in Apps :
          /\ view.page[a].request # <<>>
          /\ view.page[a].request[1].amount \in MinAmount..MaxAmount

\* C5: validate_investment_inputs returns one error for each violated
\* condition, in the order amount too small, amount too large, no
\* preferences, no geography, hence no error exactly when the amount is
\* within 1000..10000000 and both selections are non-empty; the amounts it
\* accepts are those the amount input of the apps permits.
C5_OneErrorPerViolatedCondition ==
    validated.called =>
        /\ validated.errors =
              (IF validated.amount < 1000 THEN <<AmountTooSmallError>> ELSE <<>>)
              \o (IF validated.amount > 10000000 THEN <<AmountTooLargeError>> ELSE <<>>)
              \o (IF validated.preferences = <<>> THEN <<NoPreferencesError>> ELSE <<>>)
              \o (IF validated.geography = <<>> THEN <<NoGeographyError>> ELSE <<>>)
        /\ validated.errors = <<>>
              <=> /\ 1000 <= validated.amount /\ validated.amount <= 10000000
                  /\ validated.preferences # <<>>
                  /\ validated.geography # <<>>
        /\ (AmountTooSmallError \notin Range(validated.errors)
                /\ AmountTooLargeError \notin Range(validated.errors))
              <=> number_input(MinAmount, MaxAmount, DefaultAmount, validated.amount) = validated.amount

\* C5, witness: a call with the greatest amount plus one and no preferences
\* returned the two errors in order.
C5_TwoErrorsInOrder ==
    /\ validated.called
    /\ validated.amount = MaxAmount + 1
    /\ validated.preferences = <<>>
    /\ validated.geography # <<>>
    /\ validated.errors = <<AmountTooLargeError, NoPreferencesError>>

\* C6: whenever the download button is offered, the done flag is set and a
\* report is stored, the data of the download are text (str or bytes) and
\* are the text of the stored report, which after an analysis that returned
\* a report in this run is the text the library returned, the file name is
\* a timestamped .md name and the mime type is text/markdown.
C6_DownloadDeliversReportText ==
    view.session # "none" =>
        \A a \in Apps :
            view.page[a].download # <<>> =>
                LET d == view.page[a].download[1]
                    st == ss[a][view.session]
                IN /\ st.done
                   /\ Truthy(st.report)
                   /\ d.data.kind \in {"str", "bytes"}
                   /\ d.data.str = Str(st.report)
                   /\ (view.page[a].request # <<>> /\ ~view.outcome.raises
                          /\ Truthy(view.outcome.value)
                          /\ \A i \in DOMAIN view.page[a].msgs : view.page[a].msgs[i].level = "success")
                        => d.data.str = Str(view.outcome.value)
                   /\ EndsWith(d.file_name, Strftime(view.now) \o ".md")
                   /\ d.mime = "text/markdown"

\* The start of the word of t that ends at position i.
RECURSIVE WordStart(_, _)
WordStart(t, i) ==
    IF i < 1 \/ IsSpace(CharAt(t, i)) THEN i + 1 ELSE WordStart(t, i - 1)

\* The periods a text states: the words followed by "-year" or " years".
StatedPeriods(t) ==
    { SubSeq(t, WordStart(t, i - 1), i - 1) :
        i \in { j \in 2..Len(t) : \/ (j + 4 <= Len(t) /\ SubSeq(t, j, j + 4) = "-year")
                                  \/ (j + 5 <= Len(t) /\ SubSeq(t, j, j + 5) = " years") } }

\* C7: in each app each of the six fields of the request appears as it is
\* in the description of at least one of the tasks built from it, and no
\* description states a period of years other than the time horizon of the
\* request (as "N" or as the years "1-N").
C7_RequestVerbatimInTasks ==
    view.session # "none" =>
        \A a \in Apps :
            view.page[a].tasks # <<>> =>
                LET data == view.page[a].request[1]
                    tasks == view.page[a].tasks
                    horizon == IntToStr(data.time_horizon)
                IN /\ Len(tasks) = 4
                   /\ \A field \in { IntToStr(data.amount), data.currency, data.geography,
                                     data.preferences, data.risk_tolerance, horizon } :
                          \E i \in DOMAIN tasks : Contains(field, tasks[i])
                   /\ \A i \in DOMAIN tasks :
                          StatedPeriods(tasks[i]) \subseteq {horizon, "1-" \o horizon}

\* Session states and outcomes a run of the page may meet.
StoredReport == [keys |-> {"done", "report"}, done |-> TRUE, report |-> PyStr(GoodText)]
ChartSessionStates == {NewSession, StoredReport}
ChartOutcomes == {Returns(PyNone), Returns(CrewOutput(GoodText))}
ChartForms == LoadForms \cup ClickForms

\* C8: in every app the charts of a run are those of every other run that
\* selects the same time horizon, whatever its session state (done flag,
\* stored report), its other inputs (amount, currency, risk tolerance, keys,
\* selections, click) and the outcome of its analysis; the trend chart is
\* the same in all runs.
C8_ChartsFromHorizonOnly ==
    view.session # "none" =>
        \A a \in Apps, st2 \in ChartSessionStates, o2 \in ChartOutcomes,
           in2 \in ChartForms :
            LET c2 == main_button(a, env[a], st2, in2,
                                  IF StartsAnalysis(a, env[a], in2) THEN o2 ELSE NoOutcome)
                p2 == main_page(a, env[a], in2, c2, NoClock)
            IN /\ p2.trend = view.page[a].trend
               /\ in2.time_horizon = view.in.time_horizon
                    => p2.projection = view.page[a].projection

\* C8, witness: a run that selected the greatest amount and drew a stored
\* report in each app.
C8_RunWithReportAndGreatestAmount ==
    /\ view.session # "none"
    /\ view.in.amount = MaxAmount
    /\ view.in.time_horizon = MaxHorizon
    /\ \A a \in Apps : view.page[a].shown # <<>>

\* The session state of session s in app a, the stored report as text.
SessionState(a, s) ==
    [done |-> ss[a][s].done,
     report |-> IF ss[a][s].report = PyNone THEN <<>> ELSE <<Str(ss[a][s].report)>>]

\* What the latest run showed in app a: a report, an error.
Shows(a) ==
    [report |-> view.page[a].shown # <<>>,
     error |-> \E i \in DOMAIN view.page[a].msgs : view.page[a].msgs[i].level = "error"]

\* The text of a value the library returned.
TextOf(v) == IF HasAttr(v, "raw") THEN Str(v.raw[1]) ELSE Str(v)

\* The texts investment_advisor_app takes for a report.
Accepted(t) ==
    /\ Len(Strip(t)) >= 200
    /\ ~Contains("absence of", Lower(t))
    /\ ~Contains("unable to provide", Lower(t))

C10_TypedKeysNotRetained ==
    \A a \in Apps :
        /\ env[a].model # TypedModelKey
        /\ env[a].search # TypedSearchKey
        /\ (view.session # "none" /\ ~view.in.clicked) =>
              /\ view.page[a].env_key # TypedModelKey
              /\ view.page[a].env_search # TypedSearchKey
              /\ view.page[a].api_key = TypedModelKey => view.in.api_key = <<TypedModelKey>>
              /\ view.page[a].search_key = TypedSearchKey => view.in.search_key = <<TypedSearchKey>>

\* ------------------------------------------------------------------------
\* test_setup.py.  What the run was given, read from the inputs alone.
\* ------------------------------------------------------------------------

PythonSucceeds ==
    setup.version.major > 3 \/ (setup.version.major = 3 /\ setup.version.minor >= 9)
DependenciesSucceed ==
    \A i \in 1..Len(required_packages) : setup.imports[required_packages[i]] = "ok"
\* The value of a variable once the .env file is read.
EffectiveValue(v) == IF setup.environ[v] # <<>> THEN setup.environ[v] ELSE setup.dotenv[v]
ValidKey(value) == value # <<>> /\ value[1] # "" /\ ~StartsWith(value[1], "your_")
EnvironmentSucceeds == \A v \in EnvVars : ValidKey(EffectiveValue(v))
ConnectionSucceeds == setup.conn = "ok"
LastLines(out, n) == IF Len(out) < n THEN <<>> ELSE SubSeq(out, Len(out) - n + 1, Len(out))

\* C11: whenever test_setup.main returns, it returns 0 exactly when the
\* Python version check, the dependency check, the environment-variable
\* check and the connection test all succeed; otherwise it returns 1 and
\* the last lines it printed are the failure banner.
C11_ZeroIffAllFourSucceed ==
    (setup.ran /\ setup.run.returned) =>
        /\ setup.run.code = 0 <=>
              (PythonSucceeds /\ DependenciesSucceed /\ EnvironmentSucceeds /\ ConnectionSucceeds)
        /\ setup.run.code # 0 =>
              /\ setup.run.code = 1
              /\ LastLines(setup.run.out, Len(FailureBanner)) = FailureBanner

\* C11, witness: the three local checks passed and the connection test
\* failed: main returned 1 under the failure banner.
C11_ConnectionFailureReturnsOne ==
    /\ setup.ran
    /\ PythonSucceeds /\ DependenciesSucceed /\ EnvironmentSucceeds /\ ~ConnectionSucceeds
    /\ setup.run.returned
    /\ setup.run.code = 1
    /\ LastLines(setup.run.out, Len(FailureBanner)) = FailureBanner

LocalChecks == << "check_python_version", "check_dependencies", "check_env_variables" >>
IsPrefix(s, t) == Len(s) <= Len(t) /\ s = SubSeq(t, 1, Len(s))
ImportRaises == \E i \in 1..Len(required_packages) : setup.imports[required_packages[i]] = "broken"

\* C12: test_setup.main calls its checks in the order Python version,
\* dependencies, environment variables, connection; unless an exception
\* leaves a check, all three local checks are called whichever of them
\* failed; the connection test is called only after all three passed, and
\* every request it makes carries a key that is set, not empty and not a
\* "your_" placeholder.
C12_LocalChecksThenConnection ==
    setup.ran =>
        /\ IsPrefix(setup.run.checks, Append(LocalChecks, "test_openai_connection"))
        /\ IsPrefix(SubSeq(LocalChecks, 1, 2), setup.run.checks)
        /\ ~ImportRaises => IsPrefix(LocalChecks, setup.run.checks)
        /\ Len(setup.run.checks) > Len(LocalChecks) =>
              PythonSucceeds /\ DependenciesSucceed /\ EnvironmentSucceeds
        /\ setup.run.requests # <<>> =>
              /\ PythonSucceeds /\ DependenciesSucceed /\ EnvironmentSucceeds
              /\ setup.run.requests = << EffectiveValue("OPENAI_API_KEY")[1] >>
        /\ \A i \in 1..Len(setup.run.requests) : ValidKey(<< setup.run.requests[i] >>)

\* C12, witness: the Python version check and the dependency check failed,
\* the environment held a placeholder key: all three local checks were
\* called, no connection was tried.
C12_AllLocalChecksAfterFailures ==
    /\ setup.ran
    /\ ~PythonSucceeds /\ ~DependenciesSucceed /\ ~ImportRaises
    /\ EffectiveValue("OPENAI_API_KEY") = <<Placeholder>>
    /\ setup.run.checks = LocalChecks
    /\ setup.run.requests = <<>>
    /\ setup.run.returned

\* The required variables that are not set to a usable value, in the order
\* of required_vars.
InvalidVars ==
    LET found == SelectSeq(required_vars, LAMBDA r : ~ValidKey(EffectiveValue(r.var)))
    IN [i \in 1..Len(found) |-> found[i].var]
DotEnvLine(v) == "  " \o v \o "=your_actual_key_here"

\* C13: check_env_variables returns True exactly when, the .env file read,
\* OPENAI_API_KEY and SERPER_API_KEY are both set to a non-empty value not
\* starting with "your_"; it prints one line for each of the two variables
\* whatever the first one is, and it lists every variable that is not.
C13_TrueIffBothKeysUsable ==
    (setup.ran /\ ~setup.env_check.raised) =>
        /\ setup.env_check.ok <=> EnvironmentSucceeds
        /\ setup.env_check.missing = InvalidVars
        /\ Len(setup.env_check.out) >= Len(required_vars)
        /\ \A i \in 1..Len(required_vars) :
              LET line == setup.env_check.out[i]
                  d == required_vars[i].description
              IN IF ValidKey(EffectiveValue(required_vars[i].var))
                 THEN StartsWith(line, Ok(d \o " set: "))
                 ELSE line = Bad(d \o " not set or invalid")
        /\ \A i \in 1..Len(InvalidVars) :
              DotEnvLine(InvalidVars[i]) \in Range(setup.env_check.out)
        /\ \A v \in EnvVars :
              DotEnvLine(v) \in Range(setup.env_check.out) => v \in Range(InvalidVars)

\* C13, witness: OPENAI_API_KEY is not set anywhere and SERPER_API_KEY is a
\* placeholder: the check returned False and listed both.
C13_BothMissingBothListed ==
    /\ setup.ran
    /\ ~setup.env_check.raised
    /\ EffectiveValue("OPENAI_API_KEY") = <<>>
    /\ EffectiveValue("SERPER_API_KEY") = <<"your_serper_api_key_here">>
    /\ ~setup.env_check.ok
    /\ setup.env_check.missing = << "OPENAI_API_KEY", "SERPER_API_KEY" >>
    /\ DotEnvLine("SERPER_API_KEY") \in Range(setup.env_check.out)

\* The lines that show the key of variable i of required_vars.
KeyLine(i) == setup.env_check.out[i]

\* C14: for every accepted key, no line check_env_variables prints holds
\* the complete key; a key of more than 12 characters is printed as its
\* first 8 characters, "...", and its last 4, a shorter one as "***".
C14_OnlyPartialKeyPrinted ==
    (setup.ran /\ ~setup.env_check.raised) =>
        \A i \in 1..Len(required_vars) :
            LET value == EffectiveValue(required_vars[i].var)
            IN ValidKey(value) =>
                  /\ \A j \in 1..Len(setup.env_check.out) :
                        ~Contains(value[1], setup.env_check.out[j])
                  /\ KeyLine(i) = Ok(required_vars[i].description \o " set: "
                        \o (IF Len(value[1]) > 12
                            THEN SubSeq(value[1], 1, 8) \o "..."
                                 \o SubSeq(value[1], Len(value[1]) - 3, Len(value[1]))
                            ELSE "***"))

\* C15: an analysis that came to its end called the model provider and the
\* search provider with the credentials of the session that started it.
C15_OwnCredentialsOnly ==
    \A s \in Sessions :
        race.pc[s] = "done" => race.used[s] = SessionKeys(s)

\* C16: in investment_advisor_app every report stored in a session state,
\* and every report the latest run displayed or offered for download, is a
\* text that without the white space around it has at least 200 characters
\* and that holds neither "absence of" nor "unable to provide" in any
\* letter case; a click whose result is no such text stores nothing.
C16_AppReportsPassBothChecks ==
    /\ \A s \in Sessions :
          ss["app"][s].report # PyNone =>
              /\ ss["app"][s].report.kind = "str"
              /\ Accepted(ss["app"][s].report.str)
    /\ view.session # "none" =>
          /\ \A i \in 1..Len(view.page["app"].shown) : Accepted(view.page["app"].shown[i])
          /\ \A i \in 1..Len(view.page["app"].download) :
                Accepted(view.page["app"].download[i].data.str)
          /\ (view.page["app"].kickoffs = 1 /\ ~Accepted(result_to_str_app(view.outcome.value))) =>
                ss["app"][view.session].report # PyStr(result_to_str_app(view.outcome.value))

\* C16, witness: the library returned a text of more than 200 characters
\* of which fewer than 200 are left without the white space around it:
\* investment_advisor_app showed its error and stored nothing, while
\* investment_advisor_final stored the result.
C16_PaddedTextRejectedByApp ==
    /\ view.session # "none"
    /\ view.outcome = Returns(CrewOutput(PaddedText))
    /\ Len(PaddedText) >= 200
    /\ view.page["app"].kickoffs = 1
    /\ view.page["app"].msgs = <<InsufficientError_app>>
    /\ ss["app"][view.session].report = PyNone
    /\ ss["final"][view.session].report = CrewOutput(PaddedText)

\* The text of a result by the priority raw, output, result, string form.
TextByPriority(v) ==
    IF v.raw # <<>> THEN v.raw[1].str
    ELSE IF v.output # <<>> THEN v.output[1].str
    ELSE IF v.result # <<>> THEN v.result[1].str
    ELSE v.str

\* C17: when kickoff returns None, run_analysis of investment_advisor_app
\* returns None and shows nothing; when it returns another value, the text
\* run_analysis checks, and returns if it passes, is the raw attribute if
\* the value has one, else the output attribute, else the result
\* attribute, else the string form of the value.
C17_TextByFixedPriority ==
    (call.app = "app" /\ ~call.outcome.raises) =>
        IF call.outcome.value = PyNone
        THEN call.ret = PyNone /\ call.msgs = <<>>
        ELSE IF Accepted(TextByPriority(call.outcome.value))
        THEN call.ret = PyStr(TextByPriority(call.outcome.value)) /\ call.msgs = <<>>
        ELSE call.ret = PyNone /\ call.msgs # <<>>

\* C17, witness: the result has no raw attribute, an output attribute and
\* a result attribute, each of 200 characters and different from its
\* string form: run_analysis returned the text of output.
C17_OutputTakenBeforeResult ==
    /\ call.app = "app"
    /\ call.outcome = Returns(PyObj(ObjectText, <<>>, <<PyStr(OutputText)>>, <<PyStr(ResultText)>>))
    /\ call.ret = PyStr(OutputText)
    /\ OutputText # ResultText /\ OutputText # ObjectText

\* C18: an analysis of investment_advisor_app in which an Exception was
\* raised returns None and shows one message, an error: by the lower-cased
\* exception message, the authentication message if it contains "auth" or
\* "key"; else the rate-limit message if it contains "rate"; else the
\* generic message, which carries the exception text.
C18_OneErrorByPrecedence ==
    (call.app = "app" /\ call.outcome.raises /\ IsException(call.outcome)) =>
        LET m == Lower(call.outcome.msg)
            auth == Contains("auth", m) \/ Contains("key", m)
            rate == Contains("rate", m)
        IN /\ call.ret = PyNone
           /\ Len(call.msgs) = 1
           /\ call.msgs[1].level = "error"
           /\ auth => call.msgs[1] = AuthError_app
           /\ (~auth /\ rate) => call.msgs[1] = RateError_app
           /\ (~auth /\ ~rate) =>
                 /\ call.msgs[1] \notin {AuthError_app, RateError_app}
                 /\ EndsWith(call.msgs[1].text, call.outcome.msg)

\* C18, witness: the exception message holds "rate" inside another word
\* and neither "auth" nor "key": the rate-limit message was shown.
C18_RateInsideAWord ==
    /\ call.app = "app"
    /\ call.outcome = Raises("kickoff", "timeout generated")
    /\ call.ret = PyNone
    /\ call.msgs = <<RateError_app>>

\* C19: in each app an Exception raised at any stage of the analysis (the
\* credentials written, the agents, the tasks or the crew built, kickoff
\* run, the result checked) does not leave the analysis function: the
\* function shows an error message and returns None.
C19_ExceptionsCaughtAtEveryStage ==
    (call.app # "none" /\ call.outcome.raises /\ IsException(call.outcome)) =>
        /\ ~call.propagated
        /\ call.ret = PyNone
        /\ \E i \in 1..Len(call.msgs) : call.msgs[i].level = "error"

\* C19, witness: in investment_advisor_final an Exception was raised while
\* the credentials were written, before anything was built: the function
\* showed its error and returned None.
C19_CaughtWhileWritingCredentials ==
    /\ call.app = "final"
    /\ call.outcome = Raises("environ", "Connection timed out")
    /\ ~call.propagated
    /\ call.ret = PyNone
    /\ call.msgs = <<GenericError_final("Connection timed out")>>

\* C20: in every app and every session the done flag is set exactly when a
\* report is stored: neither is at the start, and a run of the page that
\* changes one of them is a click of that session whose analysis ran and
\* returned a value that counts as true, and it leaves the flag set and
\* that value stored.
C20_DoneIffReportStored ==
    /\ \A a \in Apps, s \in Sessions : ~ss[a][s].done /\ ss[a][s].report = PyNone
    /\ [][ \A a \in Apps, s \in Sessions :
              /\ ss'[a][s].done <=> ss'[a][s].report # PyNone
              /\ (ss'[a][s].done # ss[a][s].done \/ ss'[a][s].report # ss[a][s].report) =>
                    /\ view'.session = s
                    /\ view'.in.clicked
                    /\ view'.page[a].kickoffs = 1
                    /\ ~view'.outcome.raises
                    /\ Truthy(view'.outcome.value)
                    /\ ss'[a][s].done
                    /\ Str(ss'[a][s].report) = TextOf(view'.outcome.value) ]_vars

\* C20, witness: after a click whose analysis returned a report, followed
\* by a click whose analysis raised, every app still has the flag set and
\* the report stored.
C20_FlagAndReportAfterFailedClick ==
    /\ view.session = "s1"
    /\ view.in.clicked
    /\ view.outcome.raises
    /\ \A a \in Apps :
          /\ view.page[a].kickoffs = 1
          /\ ss[a]["s1"].done
          /\ Str(ss[a]["s1"].report) = GoodText

\* ------------------------------------------------------------------------
\* C21
\* ------------------------------------------------------------------------

\* A run of the page that cannot store a report in app a: no click, a click
\* the validation rejected, or a click whose analysis returned None (the
\* library raised, or returned None).
KeepsReport(a, run) ==
    \/ ~run.in.clicked
    \/ run.page[a].request = <<>>
    \/ run.outcome.raises
    \/ run.outcome.value = PyNone

MissingPreferencesError(a) == IF a = "app" THEN SelectionError_app ELSE PreferencesError(a)
MissingGeographyError(a) == IF a = "app" THEN SelectionError_app ELSE GeographyError(a)

\* C22: in every app a click is validated in the order credentials,
\* investment preferences, geography: the messages of the click are the
\* single error of the first check that fails, the credentials error
\* whenever a key is missing whatever the selections, and a click that
\* starts no analysis shows exactly one error.
C22_FirstFailingCheckOnly ==
    view.in.clicked =>
        \A a \in Apps :
            LET p == view.page[a]
            IN /\ (p.api_key = "" \/ p.search_key = "") =>
                      p.msgs = <<CredentialsError(a)>> /\ p.request = <<>>
               /\ (p.api_key # "" /\ p.search_key # "" /\ view.in.preferences = <<>>) =>
                      p.msgs = <<MissingPreferencesError(a)>> /\ p.request = <<>>
               /\ (p.api_key # "" /\ p.search_key # "" /\ view.in.preferences # <<>>
                                  /\ view.in.geography = <<>>) =>
                      p.msgs = <<MissingGeographyError(a)>> /\ p.request = <<>>
               /\ p.request = <<>> => Len(p.msgs) = 1 /\ p.msgs[1].level = "error"

\* C22, witness: a click with no model-provider key, no investment type and
\* no geography selected: every app shows the credentials error alone.
C22_OnlyCredentialsErrorOfThree ==
    /\ view.in.clicked
    /\ view.in.preferences = <<>>
    /\ view.in.geography = <<>>
    /\ \A a \in Apps :
          /\ view.page[a].api_key = ""
          /\ view.page[a].msgs = <<CredentialsError(a)>>

\* ------------------------------------------------------------------------
\* C23
\* ------------------------------------------------------------------------

\* Whether the latest run of app a showed an error or a warning.
ShowsErrorOrWarning(a) ==
    \E i \in DOMAIN view.page[a].msgs : view.page[a].msgs[i].level \in {"error", "warning"}

\* Whether the latest run of app a stored what the library returned as the
\* report of the session.
StoredNewReport(a) ==
    /\ view.page[a].kickoffs = 1
    /\ ~view.outcome.raises
    /\ Truthy(view.outcome.value)
    /\ ss[a][view.session].done
    /\ Str(ss[a][view.session].report) = TextOf(view.outcome.value)

\* C23 as stated: in every app a click ends with feedback: the session
\* state holds the report the click produced, or the page shows at least
\* one error or warning.
C23_EveryClickGivesFeedback ==
    view.in.clicked => \A a \in Apps : StoredNewReport(a) \/ ShowsErrorOrWarning(a)

\* ------------------------------------------------------------------------
\* C24
\* ------------------------------------------------------------------------

\* C24 as stated: every run of test_setup.main ends by returning 0 or 1,
\* whatever is installed and whatever the environment holds: no check
\* raises an exception out of main.
C24_MainAlwaysReturns ==
    setup.ran => setup.run.returned /\ setup.run.code \in {0, 1}

\* ------------------------------------------------------------------------
\* C25
\* ------------------------------------------------------------------------

\* amount * (1 + rate)^k as a number of 1000^k-ths, the amount multiplied
\* k times by 1000 + rate (rate in thousandths).
RECURSIVE GrownBy(_, _, _)
GrownBy(amount, rate, k) ==
    IF k = 0 THEN BigOf(amount) ELSE BigTimes(GrownBy(amount, rate, k - 1), 1000 + rate)

IsGrowth(value, amount, rate, k) ==
    value = [num |-> GrownBy(amount, rate, k), scale |-> k]

RECURSIVE BigShift(_, _)
BigShift(x, n) == IF n = 0 THEN x ELSE BigShift(BigTimes(x, 1000), n - 1)

\* u < v for two values num / 1000^scale.
ValueLess(u, v) ==
    LET s == IF u.scale > v.scale THEN u.scale ELSE v.scale
    IN BigLess(BigShift(u.num, s - u.scale), BigShift(v.num, s - v.scale))

\* The value of a point base^i of a chart's curve, base in thousandths.
PointValue(point) == [num |-> BigPower(point[1], point[2]), scale |-> point[2]]

StrictlyIncreasing(series) ==
    \A k \in 2..Len(series) : ValueLess(series[k - 1], series[k])

CurrencySymbols ==
    [USD |-> "$", EUR |-> "\\u20ac", GBP |-> "\\u00a3", PKR |-> "Rs.", INR |-> "\\u20b9",
     AED |-> "AED "]

\* The texts that show n / d with two decimals: a number of hundredths
\* nearest to it, the sign first.
TwoDecimals(n, d) ==
    LET a == IF n < 0 THEN -n ELSE n
        h == (100 * a) \div d
        Near(q) == IF 100 * a >= q * d THEN 2 * (100 * a - q * d) <= d
                   ELSE 2 * (q * d - 100 * a) <= d
    IN { (IF n < 0 THEN "-" ELSE "") \o IntToStr(q \div 100) \o "." \o Pad2(q % 100) :
            q \in {q \in {h, h + 1} : Near(q)} }

\* C27 as stated: format_currency picks the form by the amount alone
\* (millions with suffix M from 1000000, thousands with suffix K from 1000,
\* the plain amount below, zero and negative amounts included), always with
\* two decimals, after the symbol of a known currency or, for any other
\* currency, its code and a space.
C27_FormByAmountSymbolByCurrency ==
    calc.fn = "format_currency" =>
        LET prefix == IF calc.currency \in DOMAIN CurrencySymbols
                      THEN CurrencySymbols[calc.currency] ELSE calc.currency \o " "
            d == IF calc.amount >= 1000000 THEN 1000000
                 ELSE IF calc.amount >= 1000 THEN 1000 ELSE 1
            suffix == IF calc.amount >= 1000000 THEN "M"
                      ELSE IF calc.amount >= 1000 THEN "K" ELSE ""
        IN \E number \in TwoDecimals(calc.amount, d) : calc.text = prefix \o number \o suffix

====
